---- MODULE Spec2Model ----
(***************************************************************************)
(* FarmFlow: the storage facade (MemStorage / DatabaseStorage) and the     *)
(* REST routes that call it.  Time is counted in ticks, TicksPerDay to a   *)
(* calendar day; an instant is a number of ticks since 2023-11-01T00:00Z   *)
(* and a calendar date "YYYY-MM-DD" is a number of days since 2023-11-01.  *)
(***************************************************************************)
EXTENDS Integers, Sequences, FiniteSets, TLC

(* ------------------------------ bounds -------------------------------- *)
TicksPerDay == 2
MaxTz == 1
MaxTicks == 2
MaxDay == 2
MaxCreates == 1
MaxIdCreates == 3
MaxRegistrations == 1
MaxQty == 0
MaxInflight == 2
MaxWeatherCreates == 2
MaxQueued == 2
MaxPosts == 2

(* ------------------------------ values -------------------------------- *)
Backends == {"mem", "db"}
TzOffsets == (0 - MaxTz)..MaxTz
NowStart == TicksPerDay
Days == 0..MaxDay
TaskStatusValues == {"upcoming", "today", "overdue", "completed"}
(* The status values that request bodies carry. *)
InputStatusValues == {"completed", "overdue"}
InventoryStatusValues == {"low", "good"}
QtyValues == (0 - 1)..MaxQty
Usernames == {"demo", "alice"}
Emails == {"demo@example.com", "alice@example.com"}

(* A JavaScript value that is either a Date (v: its instant) or a          *)
(* "YYYY-MM-DD" string (v: its day).                                       *)
DateString(day) == [kind |-> "string", v |-> day]
DateObject(instant) == [kind |-> "Date", v |-> instant]

(* new Date(x): a date-only string is parsed as midnight UTC of that day;  *)
(* a Date is copied.                                                       *)
NewDate(x) == IF x.kind = "string" THEN DateObject(x.v * TicksPerDay) ELSE DateObject(x.v)

(* null, and an ISO timestamp string (v: its instant) as toISOString gives. *)
Null == [kind |-> "null", v |-> 0]
ToISOString(date) == [kind |-> "iso", v |-> date.v]

(* if (x): null is falsy, a Date and a non-empty string are truthy. *)
Truthy(x) == x.kind # "null"

(* typeof x === 'string' *)
IsString(x) == x.kind \in {"string", "iso"}

(* What a date column (string mode) gives back for a written value. *)
DateColumn(x) == IF x.kind = "null" THEN Null
                 ELSE IF x.kind = "string" THEN x
                 ELSE DateString(x.v \div TicksPerDay)

(* x < today, today a Date: a Date compares by its instant, a date string  *)
(* converts to NaN and every comparison with NaN is false.                 *)
DateLess(x, today) == x.kind = "Date" /\ x.v < today.v

(* x.getTime exists on a Date only; on a string the call throws TypeError. *)
HasGetTime(x) == x.kind = "Date"

VARIABLES backend, tz, now, users, userIdCounter, session,
          tasks, taskIdCounter, issuedTaskIds,
          inventoryItems, inventoryIdCounter, issuedInventoryIds, last,
          equipmentItems, equipmentIdCounter, contactItems, contactIdCounter,
          weatherPrefs, weatherPrefIdCounter, pending,
          cache, online, offlineQueue, posts, notifications

vars == <<backend, tz, now, users, userIdCounter, session,
          tasks, taskIdCounter, issuedTaskIds,
          inventoryItems, inventoryIdCounter, issuedInventoryIds, last,
          equipmentItems, equipmentIdCounter, contactItems, contactIdCounter,
          weatherPrefs, weatherPrefIdCounter, pending,
          cache, online, offlineQueue, posts, notifications>>

clockVars == <<backend, tz, now>>
userVars == <<users, userIdCounter, session>>
taskVars == <<tasks, taskIdCounter, issuedTaskIds>>
inventoryVars == <<inventoryItems, inventoryIdCounter, issuedInventoryIds>>
equipmentVars == <<equipmentItems, equipmentIdCounter>>
contactVars == <<contactItems, contactIdCounter>>
weatherVars == <<weatherPrefs, weatherPrefIdCounter>>
(* The browser's side: the service worker's cache, the network as the      *)
(* worker finds it, the offline queues in IndexedDB, the POST requests the *)
(* server has received for each queued item, and the notifications shown.  *)
workerVars == <<cache, online, offlineQueue, posts, notifications>>
(* What the routes of users, tasks and inventory leave alone: the other    *)
(* stores and the requests in flight.                                      *)
otherVars == <<equipmentVars, contactVars, weatherVars, pending>>

(* The host's current calendar day, and                                    *)
(* const today = new Date(); today.setHours(0, 0, 0, 0): local midnight.   *)
LocalDay == (now + tz) \div TicksPerDay
Today == DateObject(LocalDay * TicksPerDay - tz)

(* { ...a, ...b } *)
Spread(a, b) == [k \in (DOMAIN a) \cup (DOMAIN b) |-> IF k \in DOMAIN b THEN b[k] ELSE a[k]]

Thrown == [ok |-> FALSE]
Returned(v) == [ok |-> TRUE, val |-> v]

(* ------------------------- storage: tasks ----------------------------- *)
(* Modelled fields of a Task: id, userId, dueDate, completed, status,      *)
(* createdAt.  An InsertTask carries userId, dueDate, completed and,       *)
(* optionally, status.                                                     *)

MemStorage_createTask(insertTask, id) ==
  LET task == Spread(insertTask,
                     [id |-> id, createdAt |-> now, dueDate |-> NewDate(insertTask.dueDate)])
      status == IF task.completed THEN "completed"
                ELSE IF DateLess(task.dueDate, Today) THEN "overdue"
                ELSE IF task.dueDate.v = Today.v THEN "today"
                ELSE "upcoming"
  IN  Spread(task, [status |-> status])

MemStorage_updateTask(task, data) ==
  LET updatedTask == Spread(task, data)
      dueDate == updatedTask.dueDate
  IN  IF "completed" \in DOMAIN data
      THEN IF data.completed
           THEN Returned(Spread(updatedTask, [status |-> "completed"]))
           ELSE IF DateLess(dueDate, Today)
           THEN Returned(Spread(updatedTask, [status |-> "overdue"]))
           ELSE IF ~HasGetTime(dueDate)
           THEN Thrown
           ELSE IF dueDate.v = Today.v
           THEN Returned(Spread(updatedTask, [status |-> "today"]))
           ELSE Returned(Spread(updatedTask, [status |-> "upcoming"]))
      ELSE Returned(updatedTask)

DatabaseStorage_createTask(insertTask, id) ==
  LET dueDate == NewDate(insertTask.dueDate)
      given == IF "status" \in DOMAIN insertTask THEN insertTask.status ELSE "upcoming"
      status == IF insertTask.completed THEN "completed"
                ELSE IF DateLess(dueDate, Today) THEN "overdue"
                ELSE IF dueDate.v = Today.v THEN "today"
                ELSE given
  IN  Spread([id |-> id, createdAt |-> now], Spread(insertTask, [status |-> status]))

(* .set({...data, status: updatedStatus}): a key whose value is undefined  *)
(* is not written, and an update that writes no column is refused.         *)
(* The columns the UPDATE of DatabaseStorage.updateTask sets, computed     *)
(* from the patch and from the task the call read: { ...data, status }.    *)
DatabaseStorage_updateTaskValues(task, data) ==
  LET dueDate == IF "dueDate" \in DOMAIN data THEN NewDate(data.dueDate)
                 ELSE NewDate(task.dueDate)
      computed == IF data.completed THEN "completed"
                  ELSE IF DateLess(dueDate, Today) THEN "overdue"
                  ELSE IF dueDate.v = Today.v THEN "today"
                  ELSE "upcoming"
  IN  IF "completed" \in DOMAIN data
      THEN Spread(data, [status |-> computed])
      ELSE data

DatabaseStorage_updateTask(task, data) ==
  LET values == DatabaseStorage_updateTaskValues(task, data)
  IN  IF DOMAIN values = {} THEN Thrown ELSE Returned(Spread(task, values))

createTask(insertTask, id) ==
  IF backend = "mem" THEN MemStorage_createTask(insertTask, id)
  ELSE DatabaseStorage_createTask(insertTask, id)

updateTask(task, data) ==
  IF backend = "mem" THEN MemStorage_updateTask(task, data)
  ELSE DatabaseStorage_updateTask(task, data)

(* ----------------------- storage: inventory --------------------------- *)
(* Modelled fields of an Inventory item: id, userId, quantity, threshold,  *)
(* status, lastUpdated.                                                    *)

MemStorage_createInventoryItem(insertItem, id) ==
  LET status == IF insertItem.quantity < insertItem.threshold THEN "low" ELSE "good"
  IN  Spread(insertItem, [id |-> id, lastUpdated |-> now, status |-> status])

(* MemStorage.updateInventoryItem with the comparison made non-strict. *)
MemStorage_updateInventoryItem_NonStrict(item, data) ==
  LET updatedItem == Spread(Spread(item, data), [lastUpdated |-> now])
      quantity == IF "quantity" \in DOMAIN data THEN data.quantity ELSE item.quantity
      threshold == IF "threshold" \in DOMAIN data THEN data.threshold ELSE item.threshold
  IN  IF "quantity" \in DOMAIN data \/ "threshold" \in DOMAIN data
      THEN Returned(Spread(updatedItem, [status |-> IF quantity <= threshold THEN "low" ELSE "good"]))
      ELSE Returned(updatedItem)

MemStorage_updateInventoryItem(item, data) ==
  LET updatedItem == Spread(Spread(item, data), [lastUpdated |-> now])
      quantity == IF "quantity" \in DOMAIN data THEN data.quantity ELSE item.quantity
      threshold == IF "threshold" \in DOMAIN data THEN data.threshold ELSE item.threshold
  IN  IF "quantity" \in DOMAIN data \/ "threshold" \in DOMAIN data
      THEN Returned(Spread(updatedItem, [status |-> IF quantity < threshold THEN "low" ELSE "good"]))
      ELSE Returned(updatedItem)

DatabaseStorage_createInventoryItem(insertItem, id) ==
  LET status == IF insertItem.quantity < insertItem.threshold THEN "low" ELSE "good"
  IN  Spread([id |-> id, lastUpdated |-> now], Spread(insertItem, [status |-> status]))

(* The columns the UPDATE of DatabaseStorage.updateInventoryItem sets. *)
DatabaseStorage_updateInventoryItemValues(item, data) ==
  LET quantity == IF "quantity" \in DOMAIN data THEN data.quantity ELSE item.quantity
      threshold == IF "threshold" \in DOMAIN data THEN data.threshold ELSE item.threshold
  IN  IF "quantity" \in DOMAIN data \/ "threshold" \in DOMAIN data
      THEN Spread(data, [status |-> IF quantity < threshold THEN "low" ELSE "good"])
      ELSE data

DatabaseStorage_updateInventoryItem(item, data) ==
  LET values == DatabaseStorage_updateInventoryItemValues(item, data)
  IN  IF DOMAIN values = {} THEN Thrown ELSE Returned(Spread(item, values))

createInventoryItem(insertItem, id) ==
  IF backend = "mem" THEN MemStorage_createInventoryItem(insertItem, id)
  ELSE DatabaseStorage_createInventoryItem(insertItem, id)

updateInventoryItem(item, data) ==
  IF backend = "mem" THEN MemStorage_updateInventoryItem(item, data)
  ELSE DatabaseStorage_updateInventoryItem(item, data)

(* --------------- storage: equipment, contacts, weather ---------------- *)
(* Modelled fields of an Equipment item: id, userId, status, lastUsed,     *)
(* nextService; of a Contact: id, userId, name, email; of a                *)
(* WeatherPreference: id, userId, location, units.                         *)
Has(data, k) == k \in DOMAIN data

MemStorage_createEquipmentItem(insertItem, id) ==
  LET lastUsed == IF Has(insertItem, "lastUsed") /\ Truthy(insertItem.lastUsed)
                  THEN ToISOString(NewDate(insertItem.lastUsed)) ELSE Null
      nextService == IF Has(insertItem, "nextService") /\ Truthy(insertItem.nextService)
                     THEN ToISOString(NewDate(insertItem.nextService)) ELSE Null
  IN  Spread(insertItem, [id |-> id, lastUsed |-> lastUsed, nextService |-> nextService])

MemStorage_updateEquipmentItem(item, data) ==
  LET lastUsed == IF Has(data, "lastUsed") /\ Truthy(data.lastUsed)
                  THEN NewDate(data.lastUsed) ELSE item.lastUsed
      nextService == IF Has(data, "nextService") /\ Truthy(data.nextService)
                     THEN NewDate(data.nextService) ELSE item.nextService
      Stored(x) == IF IsString(x) THEN x ELSE IF Truthy(x) THEN ToISOString(NewDate(x)) ELSE Null
  IN  Returned(Spread(Spread(item, data),
                      [lastUsed |-> Stored(lastUsed), nextService |-> Stored(nextService)]))

(* .values(insertItem).returning(): the row, with the columns' defaults. *)
DatabaseStorage_createEquipmentItem(insertItem, id) ==
  Spread([id |-> id, status |-> "available"],
         Spread(insertItem,
                [lastUsed |-> IF Has(insertItem, "lastUsed")
                              THEN DateColumn(insertItem.lastUsed) ELSE Null,
                 nextService |-> IF Has(insertItem, "nextService")
                                 THEN DateColumn(insertItem.nextService) ELSE Null]))

(* .set(data): an update that writes no column is refused. *)
DatabaseStorage_updateEquipmentItem(item, data) ==
  IF DOMAIN data = {} THEN Thrown
  ELSE Returned(Spread(item, [k \in DOMAIN data |->
                                IF k \in {"lastUsed", "nextService"}
                                THEN DateColumn(data[k]) ELSE data[k]]))

createEquipmentItem(insertItem, id) ==
  IF backend = "mem" THEN MemStorage_createEquipmentItem(insertItem, id)
  ELSE DatabaseStorage_createEquipmentItem(insertItem, id)

updateEquipmentItem(item, data) ==
  IF backend = "mem" THEN MemStorage_updateEquipmentItem(item, data)
  ELSE DatabaseStorage_updateEquipmentItem(item, data)

(* email: insertContact.email || null *)
MemStorage_createContact(insertContact, id) ==
  Spread(insertContact,
         [id |-> id,
          email |-> IF Has(insertContact, "email") THEN insertContact.email ELSE "null"])

MemStorage_updateContact(contact, data) == Returned(Spread(contact, data))

DatabaseStorage_createContact(insertContact, id) ==
  Spread([id |-> id, email |-> "null"], insertContact)

DatabaseStorage_updateContact(contact, data) ==
  IF DOMAIN data = {} THEN Thrown ELSE Returned(Spread(contact, data))

createContact(insertContact, id) ==
  IF backend = "mem" THEN MemStorage_createContact(insertContact, id)
  ELSE DatabaseStorage_createContact(insertContact, id)

updateContact(contact, data) ==
  IF backend = "mem" THEN MemStorage_updateContact(contact, data)
  ELSE DatabaseStorage_updateContact(contact, data)

MemStorage_updateUser(user, data) == Returned(Spread(user, data))

DatabaseStorage_updateUser(user, data) ==
  IF DOMAIN data = {} THEN Thrown ELSE Returned(Spread(user, data))

updateUser(user, data) ==
  IF backend = "mem" THEN MemStorage_updateUser(user, data)
  ELSE DatabaseStorage_updateUser(user, data)

(* this.tasks.get(id) / SELECT ... WHERE id: the stored record, as it is. *)
getTask(id) == tasks[id]

(* Map.delete / DELETE ... WHERE id *)
Remove(store, id) == [k \in (DOMAIN store) \ {id} |-> store[k]]
Put(store, id, rec) == [k \in (DOMAIN store) \cup {id} |-> IF k = id THEN rec ELSE store[k]]

(* get by id: the record under that key, or undefined. *)
Get(store, id) == IF id \in DOMAIN store THEN <<store[id]>> ELSE <<>>

(* A list that leaves out the comparison of userId. *)
List_Unscoped(store, userId) == {store[k] : k \in DOMAIN store}

(* list by owner *)
List(store, userId) == {store[k] : k \in {i \in DOMAIN store : store[i].userId = userId}}

(* --------------------- storage: the whole calls ----------------------- *)
(* What a storage call leaves behind: whether it returned (ok) or threw,   *)
(* the value it returned (<<>> is undefined) and the store after it.       *)
Outcome(ok, val, store) == [ok |-> ok, val |-> val, store |-> store]

(* this.<map>.set(key, rec): the map's key stays what it was, whatever     *)
(* rec.id says.                                                            *)
MemStorage_set(store, key, rec) == Outcome(TRUE, <<rec>>, Put(store, key, rec))

(* UPDATE ... WHERE id = key RETURNING: the row is found under its id      *)
(* column afterwards, and a primary key already taken is refused.          *)
DatabaseStorage_update(store, key, rec) ==
  IF rec.id # key /\ rec.id \in DOMAIN store
  THEN Outcome(FALSE, <<>>, store)
  ELSE Outcome(TRUE, <<rec>>, Put(Remove(store, key), rec.id, rec))

Write(store, key, rec) ==
  IF backend = "mem" THEN MemStorage_set(store, key, rec)
  ELSE DatabaseStorage_update(store, key, rec)

(* The record an update method makes of the record it read and its patch. *)
Merged(kind, rec, data) ==
  CASE kind = "task" -> updateTask(rec, data)
    [] kind = "inventory" -> updateInventoryItem(rec, data)
    [] kind = "equipment" -> updateEquipmentItem(rec, data)
    [] kind = "contact" -> updateContact(rec, data)
    [] kind = "user" -> updateUser(rec, data)

(* const x = await this.get(id); if (!x) return undefined; ...merge...;    *)
(* write: every MemStorage update, and DatabaseStorage.updateTask and      *)
(* updateInventoryItem.                                                    *)
ReadThenWrite(store, id, data, kind) ==
  IF id \notin DOMAIN store THEN Outcome(TRUE, <<>>, store)
  ELSE LET r == Merged(kind, store[id], data)
       IN  IF r.ok THEN Write(store, id, r.val) ELSE Outcome(FALSE, <<>>, store)

(* db.update(t).set(data).where(eq(t.id, id)).returning(): set() refuses   *)
(* an empty data before any row is looked for; no row gives undefined.     *)
UpdateStatement(store, id, data, kind) ==
  IF DOMAIN data = {} THEN Outcome(FALSE, <<>>, store)
  ELSE ReadThenWrite(store, id, data, kind)

Call_updateTask(id, data) == ReadThenWrite(tasks, id, data, "task")

(* What an update call writes, from the record it read: MemStorage the     *)
(* whole merged record, DatabaseStorage the columns of its UPDATE.         *)
NonEmpty(values) == IF DOMAIN values = {} THEN Thrown ELSE Returned(values)

updateTaskValues(task, data) ==
  IF backend = "mem" THEN MemStorage_updateTask(task, data)
  ELSE NonEmpty(DatabaseStorage_updateTaskValues(task, data))

updateInventoryItemValues(item, data) ==
  IF backend = "mem" THEN MemStorage_updateInventoryItem(item, data)
  ELSE NonEmpty(DatabaseStorage_updateInventoryItemValues(item, data))

Written(kind, rec, data) ==
  CASE kind = "task" -> updateTaskValues(rec, data)
    [] kind = "inventory" -> updateInventoryItemValues(rec, data)

(* An update that refuses to write when the record is no longer the one it *)
(* read.                                                                    *)
WriteAfterRead_IfUnchanged(store, id, read, values) ==
  IF Get(store, id) # <<read>> THEN Outcome(FALSE, <<>>, store)
  ELSE IF backend = "mem" THEN MemStorage_set(store, id, values)
  ELSE DatabaseStorage_update(store, id, Spread(store[id], values))

(* The write of an update call, made some time after its read, with no     *)
(* look at what the store holds by then: this.tasks.set(id, updatedTask)   *)
(* puts the record merged over the read; UPDATE ... SET values WHERE id    *)
(* sets its columns on the row as it is now, if there is one.              *)
WriteAfterRead(store, id, read, values) ==
  IF backend = "mem" THEN MemStorage_set(store, id, values)
  ELSE IF id \notin DOMAIN store THEN Outcome(TRUE, <<>>, store)
  ELSE DatabaseStorage_update(store, id, Spread(store[id], values))

(* The call from its read on: undefined when the read found nothing. *)
AfterRead(store, id, read, data, kind) ==
  IF read = <<>> THEN Outcome(TRUE, <<>>, store)
  ELSE LET v == Written(kind, read[1], data)
       IN  IF v.ok THEN WriteAfterRead(store, id, read[1], v.val)
           ELSE Outcome(FALSE, <<>>, store)

Call_updateInventoryItem(id, data) ==
  ReadThenWrite(inventoryItems, id, data, "inventory")

Call_updateEquipmentItem(id, data) ==
  IF backend = "mem" THEN ReadThenWrite(equipmentItems, id, data, "equipment")
  ELSE UpdateStatement(equipmentItems, id, data, "equipment")

Call_updateContact(id, data) ==
  IF backend = "mem" THEN ReadThenWrite(contactItems, id, data, "contact")
  ELSE UpdateStatement(contactItems, id, data, "contact")

Call_updateUser(id, data) ==
  IF backend = "mem" THEN ReadThenWrite(users, id, data, "user")
  ELSE UpdateStatement(users, id, data, "user")

(* MemStorage.deleteTask reporting success whatever it found. *)
MemStorage_deleteTask_AlwaysTrue(store, id) == Outcome(TRUE, <<TRUE>>, Remove(store, id))

(* return this.tasks.delete(id): true when the key was present. *)
MemStorage_deleteTask(store, id) == Outcome(TRUE, <<id \in DOMAIN store>>, Remove(store, id))

(* return result.count > 0, count being the number of rows deleted. *)
DatabaseStorage_deleteTask(store, id) ==
  LET count == Cardinality({k \in DOMAIN store : k = id})
  IN  Outcome(TRUE, <<count > 0>>, Remove(store, id))

MemStorage_deleteInventoryItem(store, id) ==
  Outcome(TRUE, <<id \in DOMAIN store>>, Remove(store, id))

DatabaseStorage_deleteInventoryItem(store, id) ==
  LET count == Cardinality({k \in DOMAIN store : k = id})
  IN  Outcome(TRUE, <<count > 0>>, Remove(store, id))

MemStorage_deleteEquipmentItem(store, id) ==
  Outcome(TRUE, <<id \in DOMAIN store>>, Remove(store, id))

DatabaseStorage_deleteEquipmentItem(store, id) ==
  LET count == Cardinality({k \in DOMAIN store : k = id})
  IN  Outcome(TRUE, <<count > 0>>, Remove(store, id))

MemStorage_deleteContact(store, id) ==
  Outcome(TRUE, <<id \in DOMAIN store>>, Remove(store, id))

DatabaseStorage_deleteContact(store, id) ==
  LET count == Cardinality({k \in DOMAIN store : k = id})
  IN  Outcome(TRUE, <<count > 0>>, Remove(store, id))

deleteTask(id) ==
  IF backend = "mem" THEN MemStorage_deleteTask(tasks, id)
  ELSE DatabaseStorage_deleteTask(tasks, id)

deleteInventoryItem(id) ==
  IF backend = "mem" THEN MemStorage_deleteInventoryItem(inventoryItems, id)
  ELSE DatabaseStorage_deleteInventoryItem(inventoryItems, id)

deleteEquipmentItem(id) ==
  IF backend = "mem" THEN MemStorage_deleteEquipmentItem(equipmentItems, id)
  ELSE DatabaseStorage_deleteEquipmentItem(equipmentItems, id)

deleteContact(id) ==
  IF backend = "mem" THEN MemStorage_deleteContact(contactItems, id)
  ELSE DatabaseStorage_deleteContact(contactItems, id)

(* ---------------------- storage: weather preference ------------------- *)
(* A weather call's outcome also carries the id counter after it. *)
WeatherOutcome(ok, val, store, counter) ==
  [ok |-> ok, val |-> val, store |-> store, counter |-> counter]

(* Array.from(this.weatherPrefs.values()).find(pref => pref.userId ===     *)
(* userId): the first match in the map's order, which is the order of the  *)
(* keys here; SELECT ... WHERE user_id: the first row.                     *)
getWeatherPreference(store, userId) ==
  LET keys == {k \in DOMAIN store : store[k].userId = userId}
  IN  IF keys = {} THEN <<>>
      ELSE <<store[CHOOSE k \in keys : \A other \in keys : k <= other]>>

MemStorage_setWeatherPreference(store, counter, insertPref) ==
  LET existingPref == getWeatherPreference(store, insertPref.userId)
  IN  IF existingPref # <<>>
      THEN LET updatedPref == Spread(existingPref[1], insertPref)
           IN  WeatherOutcome(TRUE, <<updatedPref>>,
                              Put(store, existingPref[1].id, updatedPref), counter)
      ELSE LET id == counter
               pref == Spread(insertPref,
                              [id |-> id,
                               location |-> IF Has(insertPref, "location")
                                            THEN insertPref.location ELSE "Harare",
                               units |-> IF Has(insertPref, "units")
                                         THEN insertPref.units ELSE "metric"])
           IN  WeatherOutcome(TRUE, <<pref>>, Put(store, id, pref), counter + 1)

MemStorage_updateWeatherPreference(store, counter, userId, data) ==
  LET pref == getWeatherPreference(store, userId)
  IN  IF pref = <<>> THEN WeatherOutcome(TRUE, <<>>, store, counter)
      ELSE LET updatedPref == Spread(pref[1], data)
           IN  WeatherOutcome(TRUE, <<updatedPref>>, Put(store, pref[1].id, updatedPref), counter)

(* The table's constraints: id is the primary key, user_id is unique. *)
WeatherRowAllowed(store, key, row) ==
  \A k \in (DOMAIN store) \ {key} : k # row.id /\ store[k].userId # row.userId

(* UPDATE weather_preferences SET values WHERE user_id = userId RETURNING *)
DatabaseStorage_updateWeatherRows(store, counter, userId, values) ==
  LET found == getWeatherPreference(store, userId)
  IN  IF DOMAIN values = {} THEN WeatherOutcome(FALSE, <<>>, store, counter)
      ELSE IF found = <<>> THEN WeatherOutcome(TRUE, <<>>, store, counter)
      ELSE LET row == Spread(found[1], values)
           IN  IF WeatherRowAllowed(store, found[1].id, row)
               THEN WeatherOutcome(TRUE, <<row>>,
                                   Put(Remove(store, found[1].id), row.id, row), counter)
               ELSE WeatherOutcome(FALSE, <<>>, store, counter)

(* INSERT INTO weather_preferences VALUES insertPref RETURNING: the serial *)
(* id is drawn when no id is given, also when the insert is then refused.  *)
DatabaseStorage_insertWeatherRow(store, counter, insertPref) ==
  LET drawn == ~Has(insertPref, "id")
      row == Spread([id |-> counter, location |-> "Harare", units |-> "metric"], insertPref)
      after == IF drawn THEN counter + 1 ELSE counter
  IN  IF WeatherRowAllowed(store, 0, row)
      THEN WeatherOutcome(TRUE, <<row>>, Put(store, row.id, row), after)
      ELSE WeatherOutcome(FALSE, <<>>, store, after)

DatabaseStorage_setWeatherPreference(store, counter, insertPref) ==
  IF getWeatherPreference(store, insertPref.userId) # <<>>
  THEN DatabaseStorage_updateWeatherRows(store, counter, insertPref.userId, insertPref)
  ELSE DatabaseStorage_insertWeatherRow(store, counter, insertPref)

DatabaseStorage_updateWeatherPreference(store, counter, userId, data) ==
  DatabaseStorage_updateWeatherRows(store, counter, userId, data)

setWeatherPreference(store, counter, insertPref) ==
  IF backend = "mem" THEN MemStorage_setWeatherPreference(store, counter, insertPref)
  ELSE DatabaseStorage_setWeatherPreference(store, counter, insertPref)

updateWeatherPreference(store, counter, userId, data) ==
  IF backend = "mem" THEN MemStorage_updateWeatherPreference(store, counter, userId, data)
  ELSE DatabaseStorage_updateWeatherPreference(store, counter, userId, data)

(* ------------------------------ requests ------------------------------ *)
(* An optional field of a JSON body: <<>> when absent, <<v>> when present. *)
Opt(S) == {<<>>} \cup {<<v>> : v \in S}

Field(name, opt) == IF opt = <<>> THEN <<>> ELSE <<[k |-> name, v |-> opt[1]]>>

(* The JSON object with the given fields. *)
Body(fields) ==
  [k \in {fields[i].k : i \in DOMAIN fields} |->
     fields[CHOOSE i \in DOMAIN fields : fields[i].k = k].v]

(* The request just served and its response: the operation, the record    *)
(* identifier, the data handed to the storage call (<<>> when none was     *)
(* made), the HTTP status and the JSON body.                               *)
Respond(op, id, data, code, body) ==
  last' = [op |-> op, id |-> id, data |-> data, code |-> code, body |-> body]

NoBody == <<>>
NoData == [k \in {} |-> TRUE]

(* MemStorage's constructor inserts demo records; a database starts empty. *)
DemoUser == [id |-> 1, username |-> "demo", password |-> "password123",
             email |-> "demo@example.com"]

DemoTasks ==
  << [dueDate |-> DateObject(0 * TicksPerDay), status |-> "today", completed |-> FALSE, userId |-> 1],
     [dueDate |-> DateObject((0 - 4) * TicksPerDay), status |-> "overdue", completed |-> FALSE, userId |-> 1],
     [dueDate |-> DateObject(4 * TicksPerDay), status |-> "upcoming", completed |-> FALSE, userId |-> 1],
     [dueDate |-> DateObject((0 - 12) * TicksPerDay), status |-> "completed", completed |-> TRUE, userId |-> 1] >>

DemoInventory ==
  << [quantity |-> 5, threshold |-> 10, userId |-> 1],
     [quantity |-> 200, threshold |-> 50, userId |-> 1],
     [quantity |-> 15, threshold |-> 5, userId |-> 1],
     [quantity |-> 25, threshold |-> 10, userId |-> 1] >>

DemoEquipment ==
  << [status |-> "maintenance-due", userId |-> 1,
      lastUsed |-> DateObject((0 - 17) * TicksPerDay), nextService |-> DateObject(4 * TicksPerDay)],
     [status |-> "available", userId |-> 1,
      lastUsed |-> DateObject((0 - 7) * TicksPerDay), nextService |-> DateObject(44 * TicksPerDay)],
     [status |-> "in-use", userId |-> 1,
      lastUsed |-> DateObject((0 - 2) * TicksPerDay), nextService |-> DateObject(29 * TicksPerDay)] >>

DemoWeatherPreference == [id |-> 1, userId |-> 1, location |-> "Harare", units |-> "metric"]

FirstTaskId == IF backend = "mem" THEN Len(DemoTasks) + 1 ELSE 1
FirstEquipmentId == IF backend = "mem" THEN Len(DemoEquipment) + 1 ELSE 1
FirstContactId == 1
FirstWeatherPrefId == IF backend = "mem" THEN 2 ELSE 1
FirstInventoryId == IF backend = "mem" THEN Len(DemoInventory) + 1 ELSE 1

Init ==
  /\ backend \in Backends
  /\ tz \in TzOffsets
  /\ now = NowStart
  /\ session = 0
  /\ last = [op |-> "init", id |-> 0, data |-> NoData, code |-> 0, body |-> NoBody]
  /\ contactItems = <<>>
  /\ contactIdCounter = 1
  /\ pending = <<>>
  /\ cache = {}
  /\ online = TRUE
  /\ offlineQueue = [store \in {"tasks", "inventory"} |-> <<>>]
  /\ posts = <<>>
  /\ notifications = [store \in {"tasks", "inventory"} |-> 0]
  /\ IF backend = "mem"
     THEN /\ equipmentItems = [i \in DOMAIN DemoEquipment |->
                                 MemStorage_createEquipmentItem(DemoEquipment[i], i)]
          /\ equipmentIdCounter = Len(DemoEquipment) + 1
          /\ weatherPrefs = <<DemoWeatherPreference>>
          /\ weatherPrefIdCounter = 2
     ELSE /\ equipmentItems = <<>>
          /\ equipmentIdCounter = 1
          /\ weatherPrefs = <<>>
          /\ weatherPrefIdCounter = 1
  /\ IF backend = "mem"
     THEN /\ users = <<DemoUser>>
          /\ userIdCounter = 2
          /\ tasks = [i \in DOMAIN DemoTasks |-> MemStorage_createTask(DemoTasks[i], i)]
          /\ taskIdCounter = Len(DemoTasks) + 1
          /\ issuedTaskIds = [i \in DOMAIN DemoTasks |-> i]
          /\ inventoryItems = [i \in DOMAIN DemoInventory |->
                                 MemStorage_createInventoryItem(DemoInventory[i], i)]
          /\ inventoryIdCounter = Len(DemoInventory) + 1
          /\ issuedInventoryIds = [i \in DOMAIN DemoInventory |-> i]
     ELSE /\ users = <<>>
          /\ userIdCounter = 1
          /\ tasks = <<>>
          /\ taskIdCounter = 1
          /\ issuedTaskIds = <<>>
          /\ inventoryItems = <<>>
          /\ inventoryIdCounter = 1
          /\ issuedInventoryIds = <<>>

(* --------------------------- routes: auth ----------------------------- *)
(* POST /api/auth/register *)
RegisterUpTo(limit, username, email) ==
  /\ userIdCounter - (IF backend = "mem" THEN 2 ELSE 1) < limit
  /\ IF \E id \in DOMAIN users : users[id].username = username
     THEN /\ Respond("register", 0, NoData, 400, NoBody)
          /\ UNCHANGED userVars
     ELSE IF \E id \in DOMAIN users : users[id].email = email
     THEN /\ Respond("register", 0, NoData, 400, NoBody)
          /\ UNCHANGED userVars
     ELSE LET id == userIdCounter
              user == [id |-> id, username |-> username, password |-> "secret", email |-> email]
          IN  /\ userIdCounter' = userIdCounter + 1
              /\ users' = Put(users, id, user)
              /\ session' = id
              /\ Respond("register", id, NoData, 201, <<user>>)
  /\ UNCHANGED <<workerVars, clockVars, taskVars, inventoryVars, otherVars>>

Register(username, email) == RegisterUpTo(MaxRegistrations, username, email)

(* --------------------------- routes: tasks ---------------------------- *)
(* Identifiers a request may name: a record of the demo user, the records  *)
(* created after start-up, and one identifier never issued.                *)
TaskIds == {1} \cup (FirstTaskId..(FirstTaskId + MaxCreates))

(* The bodies of PATCH /api/tasks/:id: any subset of completed, dueDate    *)
(* and status.                                                             *)
TaskPatches ==
  { Body(Field("completed", c) \o Field("dueDate", d) \o Field("status", s)) :
      c \in Opt(BOOLEAN), d \in Opt({DateString(day) : day \in Days}), s \in Opt(InputStatusValues) }


(* An identifier taken from the number of stored tasks, not the counter. *)
NextTaskId_FromSize == Cardinality(DOMAIN tasks) + 1

(* const id = this.taskIdCounter++ (a serial column in the database). *)
NextTaskId == taskIdCounter

(* POST /api/tasks, with at most `limit` tasks created after start-up. *)
PostTaskUpTo(limit, dueDay, completed, status) ==
  /\ taskIdCounter - FirstTaskId < limit
  /\ IF session = 0
     THEN /\ Respond("createTask", 0, NoData, 401, NoBody)
          /\ UNCHANGED taskVars
     ELSE LET taskData == Spread(Body(Field("status", status)),
                                 [dueDate |-> DateString(dueDay), completed |-> completed,
                                  userId |-> session])
              id == NextTaskId
              task == createTask(taskData, id)
          IN  /\ taskIdCounter' = taskIdCounter + 1
              /\ issuedTaskIds' = Append(issuedTaskIds, id)
              /\ tasks' = Put(tasks, id, task)
              /\ Respond("createTask", id, taskData, 201, <<task>>)
  /\ UNCHANGED <<workerVars, clockVars, userVars, inventoryVars, otherVars>>

PostTask(dueDay, completed, status) == PostTaskUpTo(MaxCreates, dueDay, completed, status)

(* PATCH /api/tasks/:id without the comparison of task.userId with the     *)
(* session's user.                                                        *)
PatchTaskWith_NoOwnerCheck(patches, id) ==
  /\ IF session = 0
     THEN /\ Respond("updateTask", id, NoData, 401, NoBody)
          /\ UNCHANGED taskVars
     ELSE IF id \notin DOMAIN tasks
     THEN /\ Respond("updateTask", id, NoData, 404, NoBody)
          /\ UNCHANGED taskVars
     ELSE \E data \in patches :
            LET r == Call_updateTask(id, data)
            IN  IF r.ok
                THEN /\ tasks' = r.store
                     /\ Respond("updateTask", id, data, 200, r.val)
                     /\ UNCHANGED <<taskIdCounter, issuedTaskIds>>
                ELSE /\ Respond("updateTask", id, data, 500, NoBody)
                     /\ UNCHANGED taskVars
  /\ UNCHANGED <<workerVars, clockVars, userVars, inventoryVars, otherVars>>

(* PATCH /api/tasks/:id; the body reaches updateTask unvalidated. *)
PatchTaskWith(patches, id) ==
  /\ IF session = 0
     THEN /\ Respond("updateTask", id, NoData, 401, NoBody)
          /\ UNCHANGED taskVars
     ELSE IF id \notin DOMAIN tasks
     THEN /\ Respond("updateTask", id, NoData, 404, NoBody)
          /\ UNCHANGED taskVars
     ELSE IF tasks[id].userId # session
     THEN /\ Respond("updateTask", id, NoData, 403, NoBody)
          /\ UNCHANGED taskVars
     ELSE \E data \in patches :
            LET r == Call_updateTask(id, data)
            IN  IF r.ok
                THEN /\ tasks' = r.store
                     /\ Respond("updateTask", id, data, 200, r.val)
                     /\ UNCHANGED <<taskIdCounter, issuedTaskIds>>
                ELSE /\ Respond("updateTask", id, data, 500, NoBody)
                     /\ UNCHANGED taskVars
  /\ UNCHANGED <<workerVars, clockVars, userVars, inventoryVars, otherVars>>

PatchTask(id) == PatchTaskWith(TaskPatches, id)

(* DELETE /api/tasks/:id *)
DeleteTask(id) ==
  /\ IF session = 0
     THEN /\ Respond("deleteTask", id, NoData, 401, NoBody)
          /\ UNCHANGED taskVars
     ELSE IF id \notin DOMAIN tasks
     THEN /\ Respond("deleteTask", id, NoData, 404, NoBody)
          /\ UNCHANGED taskVars
     ELSE IF tasks[id].userId # session
     THEN /\ Respond("deleteTask", id, NoData, 403, NoBody)
          /\ UNCHANGED taskVars
     ELSE /\ tasks' = Remove(tasks, id)
          /\ Respond("deleteTask", id, NoData, 200, NoBody)
          /\ UNCHANGED <<taskIdCounter, issuedTaskIds>>
  /\ UNCHANGED <<workerVars, clockVars, userVars, inventoryVars, otherVars>>

(* GET /api/tasks/:id *)
GetTask(id) ==
  /\ IF session = 0
     THEN Respond("getTask", id, NoData, 401, NoBody)
     ELSE IF id \notin DOMAIN tasks
     THEN Respond("getTask", id, NoData, 404, NoBody)
     ELSE IF tasks[id].userId # session
     THEN Respond("getTask", id, NoData, 403, NoBody)
     ELSE Respond("getTask", id, NoData, 200, <<getTask(id)>>)
  /\ UNCHANGED <<workerVars, clockVars, userVars, taskVars, inventoryVars, otherVars>>

(* GET /api/tasks *)
GetTasks ==
  /\ IF session = 0
     THEN Respond("getTasks", 0, NoData, 401, NoBody)
     ELSE Respond("getTasks", 0, NoData, 200,
                  <<{getTask(id) : id \in {i \in DOMAIN tasks : tasks[i].userId = session}}>>)
  /\ UNCHANGED <<workerVars, clockVars, userVars, taskVars, inventoryVars, otherVars>>

(* The host clock advances. *)
ClockTick ==
  /\ now - NowStart < MaxTicks
  /\ now' = now + 1
  /\ Respond("tick", 0, NoData, 0, NoBody)
  /\ UNCHANGED <<workerVars, backend, tz, userVars, taskVars, inventoryVars, otherVars>>

TaskNext ==
  \/ \E u \in Usernames, e \in Emails : Register(u, e)
  \/ \E day \in Days, c \in BOOLEAN, s \in Opt(InputStatusValues) : PostTask(day, c, s)
  \/ \E id \in TaskIds : PatchTask(id)
  \/ \E id \in TaskIds : DeleteTask(id)
  \/ \E id \in TaskIds : GetTask(id)
  \/ GetTasks
  \/ ClockTick

TaskSpec == Init /\ [][TaskNext]_vars

(* ------------------------- routes: inventory -------------------------- *)
InventoryIds == {1} \cup (FirstInventoryId..(FirstInventoryId + MaxCreates))

(* The bodies of PATCH /api/inventory/:id: any subset of quantity,         *)
(* threshold and status.                                                   *)
InventoryPatches ==
  { Body(Field("quantity", q) \o Field("threshold", t) \o Field("status", s)) :
      q \in Opt(QtyValues), t \in Opt(QtyValues), s \in Opt(InventoryStatusValues) }

(* const id = this.inventoryIdCounter++ (a serial column in the database). *)
NextInventoryId == inventoryIdCounter

(* POST /api/inventory; insertInventorySchema drops a status in the body. *)
PostInventory(quantity, threshold) ==
  /\ inventoryIdCounter - FirstInventoryId < MaxCreates
  /\ IF session = 0
     THEN /\ Respond("createInventoryItem", 0, NoData, 401, NoBody)
          /\ UNCHANGED inventoryVars
     ELSE LET itemData == [quantity |-> quantity, threshold |-> threshold, userId |-> session]
              id == NextInventoryId
              item == createInventoryItem(itemData, id)
          IN  /\ inventoryIdCounter' = inventoryIdCounter + 1
              /\ issuedInventoryIds' = Append(issuedInventoryIds, id)
              /\ inventoryItems' = Put(inventoryItems, id, item)
              /\ Respond("createInventoryItem", id, itemData, 201, <<item>>)
  /\ UNCHANGED <<workerVars, clockVars, userVars, taskVars, otherVars>>

(* PATCH /api/inventory/:id; the body reaches updateInventoryItem unvalidated. *)
PatchInventoryWith(patches, id) ==
  /\ IF session = 0
     THEN /\ Respond("updateInventoryItem", id, NoData, 401, NoBody)
          /\ UNCHANGED inventoryVars
     ELSE IF id \notin DOMAIN inventoryItems
     THEN /\ Respond("updateInventoryItem", id, NoData, 404, NoBody)
          /\ UNCHANGED inventoryVars
     ELSE IF inventoryItems[id].userId # session
     THEN /\ Respond("updateInventoryItem", id, NoData, 403, NoBody)
          /\ UNCHANGED inventoryVars
     ELSE \E data \in patches :
            LET r == Call_updateInventoryItem(id, data)
            IN  IF r.ok
                THEN /\ inventoryItems' = r.store
                     /\ Respond("updateInventoryItem", id, data, 200, r.val)
                     /\ UNCHANGED <<inventoryIdCounter, issuedInventoryIds>>
                ELSE /\ Respond("updateInventoryItem", id, data, 500, NoBody)
                     /\ UNCHANGED inventoryVars
  /\ UNCHANGED <<workerVars, clockVars, userVars, taskVars, otherVars>>

PatchInventory(id) == PatchInventoryWith(InventoryPatches, id)

(* DELETE /api/inventory/:id *)
DeleteInventory(id) ==
  /\ IF session = 0
     THEN /\ Respond("deleteInventoryItem", id, NoData, 401, NoBody)
          /\ UNCHANGED inventoryVars
     ELSE IF id \notin DOMAIN inventoryItems
     THEN /\ Respond("deleteInventoryItem", id, NoData, 404, NoBody)
          /\ UNCHANGED inventoryVars
     ELSE IF inventoryItems[id].userId # session
     THEN /\ Respond("deleteInventoryItem", id, NoData, 403, NoBody)
          /\ UNCHANGED inventoryVars
     ELSE /\ inventoryItems' = Remove(inventoryItems, id)
          /\ Respond("deleteInventoryItem", id, NoData, 200, NoBody)
          /\ UNCHANGED <<inventoryIdCounter, issuedInventoryIds>>
  /\ UNCHANGED <<workerVars, clockVars, userVars, taskVars, otherVars>>

(* GET /api/inventory *)
GetInventory ==
  /\ IF session = 0
     THEN Respond("getInventoryItems", 0, NoData, 401, NoBody)
     ELSE Respond("getInventoryItems", 0, NoData, 200,
                  <<{inventoryItems[id] :
                       id \in {i \in DOMAIN inventoryItems : inventoryItems[i].userId = session}}>>)
  /\ UNCHANGED <<workerVars, clockVars, userVars, taskVars, inventoryVars, otherVars>>

InventoryNext ==
  \/ \E u \in Usernames, e \in Emails : Register(u, e)
  \/ \E q \in QtyValues, t \in QtyValues : PostInventory(q, t)
  \/ \E id \in InventoryIds : PatchInventory(id)
  \/ \E id \in InventoryIds : DeleteInventory(id)
  \/ GetInventory
  \/ ClockTick

InventorySpec == Init /\ [][InventoryNext]_vars

(* Creates and patches of inventory items alone. The inventory code reads  *)
(* neither the host's timezone nor the stored date, so the host is in UTC  *)
(* and the clock stands still.                                             *)
StockInit == Init /\ tz = 0

StockNext ==
  \/ Register("alice", "alice@example.com")
  \/ \E q \in QtyValues, t \in QtyValues : PostInventory(q, t)
  \/ \E id \in InventoryIds : PatchInventory(id)

StockSpec == StockInit /\ [][StockNext]_vars

(* Creates and deletes only, on the task store and the inventory store,    *)
(* with more creates than TaskSpec allows; the records' contents are fixed. *)
PostTaskId == PostTaskUpTo(MaxIdCreates, MaxDay, FALSE, <<>>)

IdTaskIds == {1} \cup (FirstTaskId..(FirstTaskId + MaxIdCreates))

IdNext ==
  \/ \E u \in Usernames, e \in Emails : Register(u, e)
  \/ PostTaskId
  \/ \E id \in IdTaskIds : DeleteTask(id)

IdSpec == Init /\ [][IdNext]_vars

(* ------------------------- routes: equipment -------------------------- *)
(* res.json(x) / res.status(500) for a storage call's outcome. *)
RespondOutcome(op, id, data, r) ==
  Respond(op, id, data, IF r.ok THEN 200 ELSE 500, r.val)

EquipmentIds == {1} \cup (FirstEquipmentId..(FirstEquipmentId + MaxCreates))

(* The bodies of PATCH /api/equipment/:id. *)
EquipmentPatches == { NoData, [status |-> "in-use"] }

(* POST /api/equipment: userId is the session's user. *)
PostEquipment ==
  /\ equipmentIdCounter - FirstEquipmentId < MaxCreates
  /\ IF session = 0
     THEN /\ Respond("createEquipmentItem", 0, NoData, 401, NoBody)
          /\ UNCHANGED equipmentVars
     ELSE LET itemData == [status |-> "available", userId |-> session]
              id == equipmentIdCounter
              item == createEquipmentItem(itemData, id)
          IN  /\ equipmentIdCounter' = equipmentIdCounter + 1
              /\ equipmentItems' = Put(equipmentItems, id, item)
              /\ Respond("createEquipmentItem", id, itemData, 201, <<item>>)
  /\ UNCHANGED <<workerVars, clockVars, userVars, taskVars, inventoryVars, contactVars, weatherVars, pending>>

(* PATCH /api/equipment/:id; the body reaches updateEquipmentItem          *)
(* unvalidated.                                                            *)
PatchEquipmentWith(patches, id) ==
  /\ IF session = 0
     THEN /\ Respond("updateEquipmentItem", id, NoData, 401, NoBody)
          /\ UNCHANGED equipmentItems
     ELSE IF id \notin DOMAIN equipmentItems
     THEN /\ Respond("updateEquipmentItem", id, NoData, 404, NoBody)
          /\ UNCHANGED equipmentItems
     ELSE IF equipmentItems[id].userId # session
     THEN /\ Respond("updateEquipmentItem", id, NoData, 403, NoBody)
          /\ UNCHANGED equipmentItems
     ELSE \E data \in patches :
            LET r == Call_updateEquipmentItem(id, data)
            IN  /\ equipmentItems' = r.store
                /\ RespondOutcome("updateEquipmentItem", id, data, r)
  /\ UNCHANGED <<workerVars, clockVars, userVars, taskVars, inventoryVars, equipmentIdCounter,
                 contactVars, weatherVars, pending>>

PatchEquipment(id) == PatchEquipmentWith(EquipmentPatches, id)

(* DELETE /api/equipment/:id *)
DeleteEquipment(id) ==
  /\ IF session = 0
     THEN /\ Respond("deleteEquipmentItem", id, NoData, 401, NoBody)
          /\ UNCHANGED equipmentItems
     ELSE IF id \notin DOMAIN equipmentItems
     THEN /\ Respond("deleteEquipmentItem", id, NoData, 404, NoBody)
          /\ UNCHANGED equipmentItems
     ELSE IF equipmentItems[id].userId # session
     THEN /\ Respond("deleteEquipmentItem", id, NoData, 403, NoBody)
          /\ UNCHANGED equipmentItems
     ELSE /\ equipmentItems' = deleteEquipmentItem(id).store
          /\ Respond("deleteEquipmentItem", id, NoData, 200, NoBody)
  /\ UNCHANGED <<workerVars, clockVars, userVars, taskVars, inventoryVars, equipmentIdCounter,
                 contactVars, weatherVars, pending>>

(* ---------------------- routes: records of two users ------------------ *)
(* The routes that name a record by id, called from the sessions of two    *)
(* users: on MemStorage the demo user's records and a registered user, on  *)
(* DatabaseStorage two registered users.  The host is in UTC.              *)
RegisterOwner(username, email) == RegisterUpTo(MaxRegistrations + 1, username, email)

PostOwnedTask == PostTask(MaxDay, FALSE, <<>>)

PostOwnedInventory == PostInventory(0, 0)

(* Whether a request is refused does not depend on its body: one empty and *)
(* one non-empty body per kind of record.                                  *)
OwnerTaskPatches == { NoData, [completed |-> TRUE] }
OwnerInventoryPatches == { NoData, [quantity |-> 0] }

(* One behaviour follows the requests on one kind of record: the routes   *)
(* of the three kinds share no state.                                      *)
TaskRoutes == {"createTask", "getTask", "updateTask", "deleteTask"}
InventoryRoutes == {"createInventoryItem", "updateInventoryItem", "deleteInventoryItem"}
EquipmentRoutes == {"createEquipmentItem", "updateEquipmentItem", "deleteEquipmentItem"}

Serving(routes) ==
  /\ last.op \in {"init", "register"} \cup routes
  /\ routes # TaskRoutes => taskIdCounter = FirstTaskId
  /\ routes # InventoryRoutes => inventoryIdCounter = FirstInventoryId
  /\ routes # EquipmentRoutes => equipmentIdCounter = FirstEquipmentId

OwnerNext ==
  \/ \E u \in Usernames, e \in Emails : RegisterOwner(u, e)
  \/ Serving(TaskRoutes) /\ PostOwnedTask
  \/ Serving(InventoryRoutes) /\ PostOwnedInventory
  \/ Serving(EquipmentRoutes) /\ PostEquipment
  \/ Serving(TaskRoutes) /\ \E id \in TaskIds : GetTask(id)
  \/ Serving(TaskRoutes) /\ \E id \in TaskIds : PatchTaskWith(OwnerTaskPatches, id)
  \/ Serving(TaskRoutes) /\ \E id \in TaskIds : DeleteTask(id)
  \/ Serving(InventoryRoutes) /\ \E id \in InventoryIds : PatchInventoryWith(OwnerInventoryPatches, id)
  \/ Serving(InventoryRoutes) /\ \E id \in InventoryIds : DeleteInventory(id)
  \/ Serving(EquipmentRoutes) /\ \E id \in EquipmentIds : PatchEquipment(id)
  \/ Serving(EquipmentRoutes) /\ \E id \in EquipmentIds : DeleteEquipment(id)

OwnerInit == Init /\ tz = 0

OwnerSpec == OwnerInit /\ [][OwnerNext]_vars

(* ------------------ routes: PATCH requests in flight ------------------ *)
(* seq without its i-th element: a request answered leaves those in flight. *)
Drop(seq, i) == [j \in 1..(Len(seq) - 1) |-> IF j < i THEN seq[j] ELSE seq[j + 1]]

(* On DatabaseStorage the handler's lookup and its update call are two     *)
(* awaited queries, and the queries of other requests run in between.  A   *)
(* PATCH in flight has passed the lookup and the ownership comparison and  *)
(* stands before its update call.                                          *)
InFlight(op, id, data) == [op |-> op, user |-> session, id |-> id, data |-> data, pc |-> "update"]

BeginPatch(op, store, patches, id) ==
  /\ backend = "db"
  /\ session # 0
  /\ Len(pending) < MaxInflight
  /\ id \in DOMAIN store
  /\ store[id].userId = session
  /\ \E data \in patches : pending' = Append(pending, InFlight(op, id, data))
  /\ Respond("begin", id, NoData, 0, NoBody)
  /\ UNCHANGED <<workerVars, clockVars, userVars, taskVars, inventoryVars, equipmentVars, contactVars, weatherVars>>

BeginPatchTask(id) == BeginPatch("updateTask", tasks, OwnerTaskPatches, id)

BeginPatchInventory(id) ==
  BeginPatch("updateInventoryItem", inventoryItems, OwnerInventoryPatches, id)

BeginPatchEquipment(id) == BeginPatch("updateEquipmentItem", equipmentItems, EquipmentPatches, id)

(* const updatedTask = await storage.updateTask(taskId, req.body);         *)
(* res.json(updatedTask)                                                    *)
FinishPatchTask(i) ==
  /\ pending[i].op = "updateTask"
  /\ LET r == Call_updateTask(pending[i].id, pending[i].data)
     IN  /\ tasks' = r.store
         /\ RespondOutcome("updateTask", pending[i].id, pending[i].data, r)
  /\ pending' = Drop(pending, i)
  /\ UNCHANGED <<workerVars, clockVars, userVars, taskIdCounter, issuedTaskIds, inventoryVars,
                 equipmentVars, contactVars, weatherVars>>

FinishPatchInventory(i) ==
  /\ pending[i].op = "updateInventoryItem"
  /\ LET r == Call_updateInventoryItem(pending[i].id, pending[i].data)
     IN  /\ inventoryItems' = r.store
         /\ RespondOutcome("updateInventoryItem", pending[i].id, pending[i].data, r)
  /\ pending' = Drop(pending, i)
  /\ UNCHANGED <<workerVars, clockVars, userVars, taskVars, inventoryIdCounter, issuedInventoryIds,
                 equipmentVars, contactVars, weatherVars>>

FinishPatchEquipment(i) ==
  /\ pending[i].op = "updateEquipmentItem"
  /\ LET r == Call_updateEquipmentItem(pending[i].id, pending[i].data)
     IN  /\ equipmentItems' = r.store
         /\ RespondOutcome("updateEquipmentItem", pending[i].id, pending[i].data, r)
  /\ pending' = Drop(pending, i)
  /\ UNCHANGED <<workerVars, clockVars, userVars, taskVars, inventoryVars, equipmentIdCounter,
                 contactVars, weatherVars>>

(* A begun request keeps the routes of its kind of record being served. *)
ServingInFlight(routes) == last.op = "begin" \/ Serving(routes)

HandlerNext ==
  \/ \E u \in Usernames, e \in Emails : Register(u, e)
  \/ ServingInFlight(TaskRoutes) /\ PostOwnedTask
  \/ ServingInFlight(InventoryRoutes) /\ PostOwnedInventory
  \/ ServingInFlight(EquipmentRoutes) /\ PostEquipment
  \/ ServingInFlight(TaskRoutes) /\ \E id \in TaskIds : GetTask(id)
  \/ ServingInFlight(TaskRoutes) /\ \E id \in TaskIds : PatchTaskWith(OwnerTaskPatches, id)
  \/ ServingInFlight(TaskRoutes) /\ \E id \in TaskIds : DeleteTask(id)
  \/ ServingInFlight(InventoryRoutes)
       /\ \E id \in InventoryIds : PatchInventoryWith(OwnerInventoryPatches, id)
  \/ ServingInFlight(InventoryRoutes) /\ \E id \in InventoryIds : DeleteInventory(id)
  \/ ServingInFlight(EquipmentRoutes) /\ \E id \in EquipmentIds : PatchEquipment(id)
  \/ ServingInFlight(EquipmentRoutes) /\ \E id \in EquipmentIds : DeleteEquipment(id)
  \/ ServingInFlight(TaskRoutes) /\ \E id \in TaskIds : BeginPatchTask(id)
  \/ ServingInFlight(InventoryRoutes) /\ \E id \in InventoryIds : BeginPatchInventory(id)
  \/ ServingInFlight(EquipmentRoutes) /\ \E id \in EquipmentIds : BeginPatchEquipment(id)
  \/ \E i \in DOMAIN pending : FinishPatchTask(i)
  \/ \E i \in DOMAIN pending : FinishPatchInventory(i)
  \/ \E i \in DOMAIN pending : FinishPatchEquipment(i)

HandlerInit == Init /\ tz = 0

HandlerSpec == HandlerInit /\ [][HandlerNext]_vars

(* -------------------------- routes: weather --------------------------- *)
(* The bodies of PATCH /api/weather/preferences; the body reaches          *)
(* updateWeatherPreference and setWeatherPreference unvalidated.           *)
WeatherPatches ==
  { NoData, [units |-> "imperial"], [userId |-> 1], [id |-> 1],
    [userId |-> 1, units |-> "imperial"] }

DefaultPrefs == [userId |-> session, location |-> "Harare", units |-> "metric"]

(* The ids handed out are capped so that the state space is finite. *)
WeatherIdsLeft == weatherPrefIdCounter' <= FirstWeatherPrefId + MaxWeatherCreates

(* GET /api/weather/preferences, served with no other request in between. *)
GetWeatherPreferences ==
  /\ IF session = 0
     THEN /\ Respond("GET weather", 0, NoData, 401, NoBody)
          /\ UNCHANGED weatherVars
     ELSE LET preferences == getWeatherPreference(weatherPrefs, session)
              r == setWeatherPreference(weatherPrefs, weatherPrefIdCounter, DefaultPrefs)
          IN  IF preferences = <<>>
              THEN /\ weatherPrefs' = r.store
                   /\ weatherPrefIdCounter' = r.counter
                   /\ RespondOutcome("GET weather", session, DefaultPrefs, r)
              ELSE /\ Respond("GET weather", session, NoData, 200, preferences)
                   /\ UNCHANGED weatherVars
  /\ WeatherIdsLeft
  /\ UNCHANGED <<workerVars, clockVars, userVars, taskVars, inventoryVars, equipmentVars, contactVars, pending>>

(* PATCH /api/weather/preferences, served with no other request in between. *)
PatchWeatherPreferences ==
  /\ IF session = 0
     THEN /\ Respond("PATCH weather", 0, NoData, 401, NoBody)
          /\ UNCHANGED weatherVars
     ELSE \E data \in WeatherPatches :
            LET updated == updateWeatherPreference(weatherPrefs, weatherPrefIdCounter, session, data)
                created == setWeatherPreference(updated.store, updated.counter,
                                                Spread([userId |-> session], data))
                r == IF updated.ok /\ updated.val = <<>> THEN created ELSE updated
            IN  /\ weatherPrefs' = r.store
                /\ weatherPrefIdCounter' = r.counter
                /\ RespondOutcome("PATCH weather", session, data, r)
  /\ WeatherIdsLeft
  /\ UNCHANGED <<workerVars, clockVars, userVars, taskVars, inventoryVars, equipmentVars, contactVars, pending>>

(* The same two requests on DatabaseStorage, where every await is a query  *)
(* and the queries of requests in flight interleave.  A request in flight  *)
(* is at its setWeatherPreference call: before the SELECT ("set"), or      *)
(* before the UPDATE or the INSERT the SELECT decided on.                  *)
BeginGetWeatherPreferences ==
  /\ backend = "db"
  /\ session # 0
  /\ Len(pending) < MaxInflight
  /\ getWeatherPreference(weatherPrefs, session) = <<>>
  /\ pending' = Append(pending, [op |-> "GET weather", user |-> session,
                                 data |-> DefaultPrefs, pc |-> "set"])
  /\ Respond("begin", session, NoData, 0, NoBody)
  /\ UNCHANGED <<workerVars, clockVars, userVars, taskVars, inventoryVars, equipmentVars, contactVars, weatherVars>>

BeginPatchWeatherPreferences ==
  /\ backend = "db"
  /\ session # 0
  /\ Len(pending) < MaxInflight
  /\ \E data \in WeatherPatches :
       LET updated == DatabaseStorage_updateWeatherPreference(weatherPrefs, weatherPrefIdCounter,
                                                              session, data)
       IN  /\ updated.ok /\ updated.val = <<>>
           /\ pending' = Append(pending, [op |-> "PATCH weather", user |-> session,
                                          data |-> Spread([userId |-> session], data),
                                          pc |-> "set"])
  /\ Respond("begin", session, NoData, 0, NoBody)
  /\ UNCHANGED <<workerVars, clockVars, userVars, taskVars, inventoryVars, equipmentVars, contactVars, weatherVars>>

(* const existingPref = await this.getWeatherPreference(insertPref.userId) *)
SelectWeatherPreference(i) ==
  /\ pending[i].pc = "set"
  /\ pending' = [pending EXCEPT ![i].pc =
                   IF getWeatherPreference(weatherPrefs, pending[i].data.userId) # <<>>
                   THEN "update" ELSE "insert"]
  /\ Respond("step", pending[i].user, NoData, 0, NoBody)
  /\ UNCHANGED <<workerVars, clockVars, userVars, taskVars, inventoryVars, equipmentVars, contactVars, weatherVars>>

FinishSetWeatherPreference(i) ==
  /\ pending[i].pc \in {"update", "insert"}
  /\ LET insertPref == pending[i].data
         r == IF pending[i].pc = "update"
              THEN DatabaseStorage_updateWeatherRows(weatherPrefs, weatherPrefIdCounter,
                                                     insertPref.userId, insertPref)
              ELSE DatabaseStorage_insertWeatherRow(weatherPrefs, weatherPrefIdCounter, insertPref)
     IN  /\ weatherPrefs' = r.store
         /\ weatherPrefIdCounter' = r.counter
         /\ RespondOutcome(pending[i].op, pending[i].user, insertPref, r)
  /\ WeatherIdsLeft
  /\ pending' = Drop(pending, i)
  /\ UNCHANGED <<workerVars, clockVars, userVars, taskVars, inventoryVars, equipmentVars, contactVars>>

WeatherNext ==
  \/ \E u \in Usernames, e \in Emails : Register(u, e)
  \/ GetWeatherPreferences
  \/ PatchWeatherPreferences
  \/ BeginGetWeatherPreferences
  \/ BeginPatchWeatherPreferences
  \/ \E i \in DOMAIN pending : SelectWeatherPreference(i)
  \/ \E i \in DOMAIN pending : FinishSetWeatherPreference(i)

WeatherInit == Init /\ tz = 0

WeatherSpec == WeatherInit /\ [][WeatherNext]_vars

(* --------------- routes: PATCH bodies that name id or userId ---------- *)
(* req.body goes to the update method as it came: a body may name any      *)
(* column of the record, its id and its userId included.                   *)
IdentityTaskPatches == { [completed |-> TRUE], [id |-> 2], [userId |-> 1], [userId |-> 2] }

IdentityInventoryPatches == { [quantity |-> 0], [id |-> 2], [userId |-> 1], [userId |-> 2] }

IdentityEquipmentPatches == { [status |-> "in-use"], [id |-> 2], [userId |-> 1], [userId |-> 2] }

IdentityNext ==
  \/ \E u \in Usernames, e \in Emails : RegisterOwner(u, e)
  \/ Serving(TaskRoutes) /\ PostOwnedTask
  \/ Serving(InventoryRoutes) /\ PostOwnedInventory
  \/ Serving(EquipmentRoutes) /\ PostEquipment
  \/ Serving(TaskRoutes) /\ \E id \in TaskIds : PatchTaskWith(IdentityTaskPatches, id)
  \/ Serving(InventoryRoutes)
       /\ \E id \in InventoryIds : PatchInventoryWith(IdentityInventoryPatches, id)
  \/ Serving(EquipmentRoutes)
       /\ \E id \in EquipmentIds : PatchEquipmentWith(IdentityEquipmentPatches, id)

IdentityInit == Init /\ tz = 0

IdentitySpec == IdentityInit /\ [][IdentityNext]_vars


(* ------------------- routes: login, logout, requireAuth --------------- *)
(* The bodies of POST /api/auth/login: a missing password, the password  *)
(* of a registered user, a wrong one, and the demo user's.                *)
Credentials == { [username |-> "alice", password |-> ""],
                 [username |-> "alice", password |-> "secret"],
                 [username |-> "alice", password |-> "password123"],
                 [username |-> "demo", password |-> "password123"] }

(* getUserByUsername: the first stored user with that username. *)
getUserByUsername(username) ==
  LET found == {id \in DOMAIN users : users[id].username = username}
  IN  IF found = {} THEN <<>>
      ELSE <<users[CHOOSE id \in found : \A other \in found : id <= other]>>

(* const { password: _, ...userWithoutPassword } = user *)
WithoutPassword(user) == [k \in (DOMAIN user) \ {"password"} |-> user[k]]

(* POST /api/auth/login that leaves out the comparison of the password. *)
Login_AnyPassword(username, password) ==
  /\ LET data == [username |-> username, password |-> password]
         user == getUserByUsername(username)
     IN  IF username = "" \/ password = ""
         THEN /\ Respond("login", 0, data, 400, NoBody)
              /\ UNCHANGED session
         ELSE IF user = <<>>
         THEN /\ Respond("login", 0, data, 401, NoBody)
              /\ UNCHANGED session
         ELSE /\ session' = user[1].id
              /\ Respond("login", user[1].id, data, 200, <<WithoutPassword(user[1])>>)
  /\ UNCHANGED <<workerVars, clockVars, users, userIdCounter, taskVars, inventoryVars, otherVars>>

(* POST /api/auth/login *)
Login(username, password) ==
  /\ LET data == [username |-> username, password |-> password]
         user == getUserByUsername(username)
     IN  IF username = "" \/ password = ""
         THEN /\ Respond("login", 0, data, 400, NoBody)
              /\ UNCHANGED session
         ELSE IF user = <<>> \/ user[1].password # password
         THEN /\ Respond("login", 0, data, 401, NoBody)
              /\ UNCHANGED session
         ELSE /\ session' = user[1].id
              /\ Respond("login", user[1].id, data, 200, <<WithoutPassword(user[1])>>)
  /\ UNCHANGED <<workerVars, clockVars, users, userIdCounter, taskVars, inventoryVars, otherVars>>

(* POST /api/auth/logout: req.session.destroy *)
Logout ==
  /\ session' = 0
  /\ Respond("logout", 0, NoData, 200, NoBody)
  /\ UNCHANGED <<workerVars, clockVars, users, userIdCounter, taskVars, inventoryVars, otherVars>>

(* A route behind requireAuth that reads and answers res.json(body). *)
ReadRoute(op, body) ==
  /\ IF session = 0
     THEN Respond(op, 0, NoData, 401, NoBody)
     ELSE Respond(op, session, NoData, 200, <<body>>)
  /\ UNCHANGED <<workerVars, clockVars, userVars, taskVars, inventoryVars, otherVars>>

(* GET /api/equipment, GET /api/contacts *)
GetEquipment == ReadRoute("getEquipmentItems", List(equipmentItems, session))

GetContacts == ReadRoute("getContacts", List(contactItems, session))

(* POST /api/contacts: userId is the session's user. *)
PostContact ==
  /\ contactIdCounter - FirstContactId < MaxCreates
  /\ IF session = 0
     THEN /\ Respond("createContact", 0, NoData, 401, NoBody)
          /\ UNCHANGED contactVars
     ELSE LET contactData == [name |-> "Farai", userId |-> session]
              id == contactIdCounter
              contact == createContact(contactData, id)
          IN  /\ contactIdCounter' = contactIdCounter + 1
              /\ contactItems' = Put(contactItems, id, contact)
              /\ Respond("createContact", id, contactData, 201, <<contact>>)
  /\ UNCHANGED <<workerVars, clockVars, userVars, taskVars, inventoryVars, equipmentVars, weatherVars, pending>>

(* Math.round((part / whole) * 100) *)
Percent(part, whole) == (200 * part + whole) \div (2 * whole)

(* GET /api/metrics *)
Metrics ==
  LET tasks_ == List(tasks, session)
      inventory == List(inventoryItems, session)
      equipment == List(equipmentItems, session)
  IN  [ taskCompletion |->
          IF tasks_ # {}
          THEN Percent(Cardinality({t \in tasks_ : t.completed}), Cardinality(tasks_))
          ELSE 100,
        inventoryHealth |->
          IF inventory # {}
          THEN Percent(Cardinality({i \in inventory : i.status = "good"}), Cardinality(inventory))
          ELSE 100,
        equipmentUtilization |->
          IF equipment # {}
          THEN Percent(Cardinality({e \in equipment : e.status = "in-use"}), Cardinality(equipment))
          ELSE 0,
        yieldEstimate |-> 90 ]

GetMetrics == ReadRoute("getMetrics", Metrics)

(* The routes behind requireAuth, by the kind of record they serve.        *)
Kinds == {"task", "inventory", "equipment", "contact", "weather"}

RoutesOf(kind) ==
  CASE kind = "task" -> TaskRoutes \cup {"getTasks"}
    [] kind = "inventory" -> InventoryRoutes \cup {"getInventoryItems"}
    [] kind = "equipment" -> EquipmentRoutes \cup {"getEquipmentItems"}
    [] kind = "contact" -> {"getContacts", "createContact"}
    [] kind = "weather" -> {"GET weather", "PATCH weather"}

ProtectedRoutes == UNION {RoutesOf(kind) : kind \in Kinds} \cup {"getMetrics"}

Untouched(kind) ==
  CASE kind = "task" -> taskIdCounter = FirstTaskId
    [] kind = "inventory" -> inventoryIdCounter = FirstInventoryId
    [] kind = "equipment" -> equipmentIdCounter = FirstEquipmentId
    [] kind = "contact" -> contactIdCounter = FirstContactId
    [] kind = "weather" -> weatherPrefIdCounter = FirstWeatherPrefId

(* One behaviour has one user, the demo user of the memory store or the   *)
(* first user registered in the database, who signs in and out and asks   *)
(* for records of one kind.                                                *)
NoUserYet == DOMAIN users = {}

Asking(kind) ==
  /\ last.op \in {"init", "register", "login", "logout", "getMetrics"} \cup RoutesOf(kind)
  /\ \A other \in Kinds \ {kind} : Untouched(other)

AuthNext ==
  \/ NoUserYet /\ Register("alice", "alice@example.com")
  \/ \E c \in Credentials : Login(c.username, c.password)
  \/ Logout
  \/ GetMetrics
  \/ Asking("task") /\ GetTasks
  \/ Asking("task") /\ PostOwnedTask
  \/ Asking("task") /\ \E id \in TaskIds : GetTask(id)
  \/ Asking("task") /\ \E id \in TaskIds : PatchTaskWith(OwnerTaskPatches, id)
  \/ Asking("task") /\ \E id \in TaskIds : DeleteTask(id)
  \/ Asking("inventory") /\ GetInventory
  \/ Asking("inventory") /\ PostOwnedInventory
  \/ Asking("inventory") /\ \E id \in InventoryIds : PatchInventoryWith(OwnerInventoryPatches, id)
  \/ Asking("inventory") /\ \E id \in InventoryIds : DeleteInventory(id)
  \/ Asking("equipment") /\ GetEquipment
  \/ Asking("equipment") /\ PostEquipment
  \/ Asking("equipment") /\ \E id \in EquipmentIds : PatchEquipment(id)
  \/ Asking("equipment") /\ \E id \in EquipmentIds : DeleteEquipment(id)
  \/ Asking("contact") /\ GetContacts
  \/ Asking("contact") /\ PostContact
  \/ Asking("weather") /\ GetWeatherPreferences
  \/ Asking("weather") /\ PatchWeatherPreferences

AuthInit == Init /\ tz = 0

AuthSpec == AuthInit /\ [][AuthNext]_vars


(* ------------------ routes: register requests in flight --------------- *)
(* The handler of POST /api/auth/register awaits getUserByUsername,        *)
(* getUserByEmail and createUser in turn. On DatabaseStorage each is a     *)
(* query, and the queries of other requests run in between; on MemStorage  *)
(* the awaited promises are settled already, so that a handler runs to its *)
(* answer before the next request's handler starts.                        *)
getUserByEmail(email) ==
  LET found == {id \in DOMAIN users : users[id].email = email}
  IN  IF found = {} THEN <<>>
      ELSE <<users[CHOOSE id \in found : \A other \in found : id <= other]>>

NewUser(insertUser, id) ==
  [id |-> id, username |-> insertUser.username, password |-> "secret",
   email |-> insertUser.email]

(* const id = this.userIdCounter++; this.users.set(id, user) *)
MemStorage_createUser(insertUser) ==
  WeatherOutcome(TRUE, <<NewUser(insertUser, userIdCounter)>>,
                 Put(users, userIdCounter, NewUser(insertUser, userIdCounter)),
                 userIdCounter + 1)

(* db.insert(users).values(insertUser).returning(): the serial id is taken *)
(* from its sequence, then the UNIQUE constraints on username and email    *)
(* reject the row.                                                         *)
DatabaseStorage_createUser(insertUser) ==
  IF \E id \in DOMAIN users : \/ users[id].username = insertUser.username
                              \/ users[id].email = insertUser.email
  THEN WeatherOutcome(FALSE, <<>>, users, userIdCounter + 1)
  ELSE MemStorage_createUser(insertUser)

createUser(insertUser) ==
  IF backend = "mem" THEN MemStorage_createUser(insertUser)
  ELSE DatabaseStorage_createUser(insertUser)

(* const userData = insertUserSchema.parse(req.body) *)
BeginRegister(username, email) ==
  /\ Len(pending) < (IF backend = "mem" THEN 1 ELSE MaxInflight)
  /\ pending' = Append(pending, [op |-> "register", user |-> 0, id |-> 0,
                                 data |-> [username |-> username, email |-> email],
                                 pc |-> "username"])
  /\ Respond("begin", 0, NoData, 0, NoBody)
  /\ UNCHANGED <<workerVars, clockVars, userVars, taskVars, inventoryVars, equipmentVars, contactVars, weatherVars>>

(* const existingUser = await storage.getUserByUsername(userData.username) *)
CheckUsername(i) ==
  /\ pending[i].op = "register"
  /\ pending[i].pc = "username"
  /\ IF getUserByUsername(pending[i].data.username) # <<>>
     THEN /\ Respond("register", 0, pending[i].data, 400, NoBody)
          /\ pending' = Drop(pending, i)
     ELSE /\ Respond("step", 0, NoData, 0, NoBody)
          /\ pending' = [pending EXCEPT ![i].pc = "email"]
  /\ UNCHANGED <<workerVars, clockVars, userVars, taskVars, inventoryVars, equipmentVars, contactVars, weatherVars>>

(* const existingEmail = await storage.getUserByEmail(userData.email) *)
CheckEmail(i) ==
  /\ pending[i].op = "register"
  /\ pending[i].pc = "email"
  /\ IF getUserByEmail(pending[i].data.email) # <<>>
     THEN /\ Respond("register", 0, pending[i].data, 400, NoBody)
          /\ pending' = Drop(pending, i)
     ELSE /\ Respond("step", 0, NoData, 0, NoBody)
          /\ pending' = [pending EXCEPT ![i].pc = "create"]
  /\ UNCHANGED <<workerVars, clockVars, userVars, taskVars, inventoryVars, equipmentVars, contactVars, weatherVars>>

(* const user = await storage.createUser(userData);                        *)
(* req.session.userId = user.id; res.status(201).json(userWithoutPassword) *)
(* and in the catch block res.status(500)                                  *)
CreateUser(i) ==
  /\ pending[i].op = "register"
  /\ pending[i].pc = "create"
  /\ userIdCounter - (IF backend = "mem" THEN 2 ELSE 1) <= MaxRegistrations
  /\ LET r == createUser(pending[i].data)
     IN  /\ users' = r.store
         /\ userIdCounter' = r.counter
         /\ IF r.ok
            THEN /\ session' = r.val[1].id
                 /\ Respond("register", r.val[1].id, pending[i].data, 201,
                            <<WithoutPassword(r.val[1])>>)
            ELSE /\ UNCHANGED session
                 /\ Respond("register", 0, pending[i].data, 500, NoBody)
  /\ pending' = Drop(pending, i)
  /\ UNCHANGED <<workerVars, clockVars, taskVars, inventoryVars, equipmentVars, contactVars, weatherVars>>

RegisterNext ==
  \/ \E u \in Usernames, e \in Emails : BeginRegister(u, e)
  \/ \E i \in DOMAIN pending : CheckUsername(i)
  \/ \E i \in DOMAIN pending : CheckEmail(i)
  \/ \E i \in DOMAIN pending : CreateUser(i)
  \/ Logout

RegisterInit == Init /\ tz = 0

RegisterSpec == RegisterInit /\ [][RegisterNext]_vars


(* --------------------- the storage facade, called directly ------------ *)
(* The operations of IStorage called one after the other by any caller,    *)
(* with any identifier.  A call is recorded like a request, its status     *)
(* being 0 when it returned and -1 when it threw.  The entity types do not *)
(* touch each other's stores, and a behaviour calls the operations of one. *)
TaskOps == {"storage.createTask", "storage.updateTask", "storage.deleteTask",
            "storage.getTask", "storage.getTasks"}
InventoryOps == {"storage.createInventoryItem", "storage.updateInventoryItem",
                 "storage.deleteInventoryItem"}
EquipmentOps == {"storage.createEquipmentItem", "storage.updateEquipmentItem",
                 "storage.deleteEquipmentItem"}
ContactOps == {"storage.createContact", "storage.updateContact", "storage.deleteContact"}
UserOps == {"storage.updateUser"}

Calls(ops) == last.op \in {"init"} \cup ops

Result(op, id, data, r) ==
  Respond(op, id, data, IF r.ok THEN 0 ELSE 0 - 1, r.val)

FacadeCreates == MaxCreates + 1

FacadeTaskIds == {1} \cup (FirstTaskId..(FirstTaskId + FacadeCreates))
FacadeInventoryIds == {1} \cup (FirstInventoryId..(FirstInventoryId + MaxCreates))
FacadeEquipmentIds == {1} \cup (FirstEquipmentId..(FirstEquipmentId + MaxCreates))
FacadeContactIds == FirstContactId..(FirstContactId + MaxCreates)
FacadeUserIds == 1..2

(* Partial<Task>: nothing, a field of the task, its creation time, its id. *)
FacadeTaskPatches ==
  { NoData, [completed |-> TRUE], [createdAt |-> 0], [id |-> 1] }
FacadeInventoryPatches == { NoData, [quantity |-> 0] }
FacadeEquipmentPatches == { NoData, [status |-> "in-use"], [lastUsed |-> Null] }
FacadeContactPatches == { NoData, [name |-> "Maria"] }
FacadeUserPatches == { NoData, [password |-> "changed"] }

StorageCreateTaskFor(owner) ==
  /\ Calls(TaskOps)
  /\ taskIdCounter - FirstTaskId < FacadeCreates
  /\ LET insertTask == [dueDate |-> DateString(MaxDay), completed |-> FALSE, userId |-> owner]
         id == NextTaskId
         task == createTask(insertTask, id)
     IN  /\ taskIdCounter' = taskIdCounter + 1
         /\ issuedTaskIds' = Append(issuedTaskIds, id)
         /\ tasks' = Put(tasks, id, task)
         /\ Respond("storage.createTask", id, insertTask, 0, <<task>>)
  /\ UNCHANGED <<workerVars, clockVars, userVars, inventoryVars, otherVars>>

StorageCreateTask == StorageCreateTaskFor(1)

StorageUpdateTask(id) ==
  /\ Calls(TaskOps)
  /\ \E data \in FacadeTaskPatches :
       LET r == Call_updateTask(id, data)
       IN  /\ tasks' = r.store
           /\ Result("storage.updateTask", id, data, r)
  /\ UNCHANGED <<taskIdCounter, issuedTaskIds>>
  /\ UNCHANGED <<workerVars, clockVars, userVars, inventoryVars, otherVars>>

StorageDeleteTask(id) ==
  /\ Calls(TaskOps)
  /\ LET r == deleteTask(id)
     IN  /\ tasks' = r.store
         /\ Result("storage.deleteTask", id, NoData, r)
  /\ UNCHANGED <<taskIdCounter, issuedTaskIds>>
  /\ UNCHANGED <<workerVars, clockVars, userVars, inventoryVars, otherVars>>

StorageGetTask(id) ==
  /\ Calls(TaskOps)
  /\ Respond("storage.getTask", id, NoData, 0, Get(tasks, id))
  /\ UNCHANGED <<workerVars, clockVars, userVars, taskVars, inventoryVars, otherVars>>

StorageGetTasksOf(userId) ==
  /\ Calls(TaskOps)
  /\ Respond("storage.getTasks", userId, NoData, 0, <<List(tasks, userId)>>)
  /\ UNCHANGED <<workerVars, clockVars, userVars, taskVars, inventoryVars, otherVars>>

StorageGetTasks == StorageGetTasksOf(1)

StorageCreateInventoryItemFor(owner) ==
  /\ Calls(InventoryOps)
  /\ inventoryIdCounter - FirstInventoryId < MaxCreates
  /\ LET insertItem == [quantity |-> MaxQty, threshold |-> MaxQty, userId |-> owner]
         id == NextInventoryId
         item == createInventoryItem(insertItem, id)
     IN  /\ inventoryIdCounter' = inventoryIdCounter + 1
         /\ issuedInventoryIds' = Append(issuedInventoryIds, id)
         /\ inventoryItems' = Put(inventoryItems, id, item)
         /\ Respond("storage.createInventoryItem", id, insertItem, 0, <<item>>)
  /\ UNCHANGED <<workerVars, clockVars, userVars, taskVars, otherVars>>

StorageCreateInventoryItem == StorageCreateInventoryItemFor(1)

StorageUpdateInventoryItem(id) ==
  /\ Calls(InventoryOps)
  /\ \E data \in FacadeInventoryPatches :
       LET r == Call_updateInventoryItem(id, data)
       IN  /\ inventoryItems' = r.store
           /\ Result("storage.updateInventoryItem", id, data, r)
  /\ UNCHANGED <<inventoryIdCounter, issuedInventoryIds>>
  /\ UNCHANGED <<workerVars, clockVars, userVars, taskVars, otherVars>>

StorageDeleteInventoryItem(id) ==
  /\ Calls(InventoryOps)
  /\ LET r == deleteInventoryItem(id)
     IN  /\ inventoryItems' = r.store
         /\ Result("storage.deleteInventoryItem", id, NoData, r)
  /\ UNCHANGED <<inventoryIdCounter, issuedInventoryIds>>
  /\ UNCHANGED <<workerVars, clockVars, userVars, taskVars, otherVars>>

StorageCreateEquipmentItemFor(owner) ==
  /\ Calls(EquipmentOps)
  /\ equipmentIdCounter - FirstEquipmentId < MaxCreates
  /\ LET insertItem == [status |-> "available", userId |-> owner, lastUsed |-> DateString(0)]
         id == equipmentIdCounter
         item == createEquipmentItem(insertItem, id)
     IN  /\ equipmentIdCounter' = equipmentIdCounter + 1
         /\ equipmentItems' = Put(equipmentItems, id, item)
         /\ Respond("storage.createEquipmentItem", id, insertItem, 0, <<item>>)
  /\ UNCHANGED <<workerVars, clockVars, userVars, taskVars, inventoryVars, contactVars, weatherVars, pending>>

StorageCreateEquipmentItem == StorageCreateEquipmentItemFor(1)

StorageUpdateEquipmentItem(id) ==
  /\ Calls(EquipmentOps)
  /\ \E data \in FacadeEquipmentPatches :
       LET r == Call_updateEquipmentItem(id, data)
       IN  /\ equipmentItems' = r.store
           /\ Result("storage.updateEquipmentItem", id, data, r)
  /\ UNCHANGED <<workerVars, clockVars, userVars, taskVars, inventoryVars, equipmentIdCounter,
                 contactVars, weatherVars, pending>>

StorageDeleteEquipmentItem(id) ==
  /\ Calls(EquipmentOps)
  /\ LET r == deleteEquipmentItem(id)
     IN  /\ equipmentItems' = r.store
         /\ Result("storage.deleteEquipmentItem", id, NoData, r)
  /\ UNCHANGED <<workerVars, clockVars, userVars, taskVars, inventoryVars, equipmentIdCounter,
                 contactVars, weatherVars, pending>>

StorageCreateContactFor(owner) ==
  /\ Calls(ContactOps)
  /\ contactIdCounter - FirstContactId < MaxCreates
  /\ LET insertContact == [name |-> "Farai", userId |-> owner]
         id == contactIdCounter
         contact == createContact(insertContact, id)
     IN  /\ contactIdCounter' = contactIdCounter + 1
         /\ contactItems' = Put(contactItems, id, contact)
         /\ Respond("storage.createContact", id, insertContact, 0, <<contact>>)
  /\ UNCHANGED <<workerVars, clockVars, userVars, taskVars, inventoryVars, equipmentVars, weatherVars, pending>>

StorageCreateContact == StorageCreateContactFor(1)

StorageUpdateContact(id) ==
  /\ Calls(ContactOps)
  /\ \E data \in FacadeContactPatches :
       LET r == Call_updateContact(id, data)
       IN  /\ contactItems' = r.store
           /\ Result("storage.updateContact", id, data, r)
  /\ UNCHANGED <<workerVars, clockVars, userVars, taskVars, inventoryVars, equipmentVars,
                 contactIdCounter, weatherVars, pending>>

StorageDeleteContact(id) ==
  /\ Calls(ContactOps)
  /\ LET r == deleteContact(id)
     IN  /\ contactItems' = r.store
         /\ Result("storage.deleteContact", id, NoData, r)
  /\ UNCHANGED <<workerVars, clockVars, userVars, taskVars, inventoryVars, equipmentVars,
                 contactIdCounter, weatherVars, pending>>

StorageUpdateUser(id) ==
  /\ Calls(UserOps)
  /\ \E data \in FacadeUserPatches :
       LET r == Call_updateUser(id, data)
       IN  /\ users' = r.store
           /\ Result("storage.updateUser", id, data, r)
  /\ UNCHANGED <<workerVars, clockVars, userIdCounter, session, taskVars, inventoryVars, otherVars>>

FacadeNext ==
  \/ StorageCreateTask
  \/ \E id \in FacadeTaskIds : StorageUpdateTask(id)
  \/ \E id \in FacadeTaskIds : StorageDeleteTask(id)
  \/ \E id \in FacadeTaskIds : StorageGetTask(id)
  \/ StorageGetTasks
  \/ StorageCreateInventoryItem
  \/ \E id \in FacadeInventoryIds : StorageUpdateInventoryItem(id)
  \/ \E id \in FacadeInventoryIds : StorageDeleteInventoryItem(id)
  \/ StorageCreateEquipmentItem
  \/ \E id \in FacadeEquipmentIds : StorageUpdateEquipmentItem(id)
  \/ \E id \in FacadeEquipmentIds : StorageDeleteEquipmentItem(id)
  \/ StorageCreateContact
  \/ \E id \in FacadeContactIds : StorageUpdateContact(id)
  \/ \E id \in FacadeContactIds : StorageDeleteContact(id)
  \/ \E id \in FacadeUserIds : StorageUpdateUser(id)

FacadeInit == Init /\ tz = 0

FacadeSpec == FacadeInit /\ [][FacadeNext]_vars

(* ------------------- the get and list calls of two owners ------------- *)
(* Records are created for two users and then read: by id, and by owner.   *)
ListOps == {"storage.getTasks", "storage.getInventoryItems", "storage.getEquipmentItems",
            "storage.getContacts"}
GetOps == {"storage.getTask", "storage.getInventoryItem", "storage.getEquipmentItem",
           "storage.getContact"}

GetOrList(op, arg, result) ==
  /\ Respond(op, arg, NoData, 0, result)
  /\ UNCHANGED <<workerVars, clockVars, userVars, taskVars, inventoryVars, otherVars>>

StorageGetInventoryItems(userId) ==
  /\ Calls(InventoryOps \cup ListOps \cup GetOps)
  /\ GetOrList("storage.getInventoryItems", userId, <<List(inventoryItems, userId)>>)

StorageGetInventoryItem(id) ==
  /\ Calls(InventoryOps \cup ListOps \cup GetOps)
  /\ GetOrList("storage.getInventoryItem", id, Get(inventoryItems, id))

StorageGetEquipmentItems(userId) ==
  /\ Calls(EquipmentOps \cup ListOps \cup GetOps)
  /\ GetOrList("storage.getEquipmentItems", userId, <<List(equipmentItems, userId)>>)

StorageGetEquipmentItem(id) ==
  /\ Calls(EquipmentOps \cup ListOps \cup GetOps)
  /\ GetOrList("storage.getEquipmentItem", id, Get(equipmentItems, id))

StorageGetContacts(userId) ==
  /\ Calls(ContactOps \cup ListOps \cup GetOps)
  /\ GetOrList("storage.getContacts", userId, <<List(contactItems, userId)>>)

StorageGetContact(id) ==
  /\ Calls(ContactOps \cup ListOps \cup GetOps)
  /\ GetOrList("storage.getContact", id, Get(contactItems, id))

ListNext ==
  \/ \E u \in FacadeUserIds : StorageCreateTaskFor(u)
  \/ \E u \in FacadeUserIds : StorageCreateInventoryItemFor(u)
  \/ \E u \in FacadeUserIds : StorageCreateEquipmentItemFor(u)
  \/ \E u \in FacadeUserIds : StorageCreateContactFor(u)
  \/ \E u \in FacadeUserIds : StorageGetTasksOf(u)
  \/ \E id \in FacadeTaskIds : StorageGetTask(id)
  \/ \E u \in FacadeUserIds : StorageGetInventoryItems(u)
  \/ \E id \in FacadeInventoryIds : StorageGetInventoryItem(id)
  \/ \E u \in FacadeUserIds : StorageGetEquipmentItems(u)
  \/ \E id \in FacadeEquipmentIds : StorageGetEquipmentItem(id)
  \/ \E u \in FacadeUserIds : StorageGetContacts(u)
  \/ \E id \in FacadeContactIds : StorageGetContact(id)

ListInit == Init /\ tz = 0

ListSpec == ListInit /\ [][ListNext]_vars

(* --------------- update calls whose steps interleave ------------------ *)
(* updateTask and updateInventoryItem read the record, await, and write.    *)
(* A call made is recorded with what it read; its write comes as a later   *)
(* step, after the steps of other calls.  A call that has returned stays   *)
(* recorded with its result and its place in the order of returns.  The    *)
(* records are created before the first update call.                       *)
RaceTaskPatches == { NoData, [completed |-> TRUE], [dueDate |-> DateString(0)] }
RaceInventoryPatches == { NoData, [quantity |-> 1], [threshold |-> 2] }

Returns == Cardinality({j \in DOMAIN pending : pending[j].pc = "done"})

(* The calls of one behaviour are calls on one record. *)
BeginUpdate(op, store, patches, id) ==
  /\ Len(pending) < MaxInflight
  /\ \A j \in DOMAIN pending : pending[j].op = op /\ pending[j].id = id
  /\ \E data \in patches :
       /\ pending' = Append(pending, [op |-> op, id |-> id, data |-> data,
                                      read |-> Get(store, id), pc |-> "write",
                                      ok |-> TRUE, val |-> <<>>, order |-> 0])
       /\ Respond(op, id, data, 1, NoBody)
  /\ UNCHANGED <<workerVars, clockVars, userVars, taskVars, inventoryVars, equipmentVars, contactVars, weatherVars>>

BeginUpdateTask(id) ==
  Calls(TaskOps) /\ BeginUpdate("storage.updateTask", tasks, RaceTaskPatches, id)

BeginUpdateInventoryItem(id) ==
  /\ Calls(InventoryOps)
  /\ BeginUpdate("storage.updateInventoryItem", inventoryItems, RaceInventoryPatches, id)

(* The continuations of MemStorage calls run in the order the calls were   *)
(* made; the UPDATE statements of DatabaseStorage calls run in any order.  *)
MayContinue(i) ==
  /\ pending[i].pc = "write"
  /\ backend = "mem" => \A j \in 1..(i - 1) : pending[j].pc = "done"

Returned_(i, r) ==
  /\ pending' = [pending EXCEPT ![i].pc = "done", ![i].ok = r.ok, ![i].val = r.val,
                                ![i].order = Returns + 1]
  /\ Result(pending[i].op, pending[i].id, pending[i].data, r)

FinishUpdateTask(i) ==
  /\ MayContinue(i)
  /\ pending[i].op = "storage.updateTask"
  /\ LET r == AfterRead(tasks, pending[i].id, pending[i].read, pending[i].data, "task")
     IN  /\ tasks' = r.store
         /\ Returned_(i, r)
  /\ UNCHANGED <<workerVars, clockVars, userVars, taskIdCounter, issuedTaskIds, inventoryVars,
                 equipmentVars, contactVars, weatherVars>>

FinishUpdateInventoryItem(i) ==
  /\ MayContinue(i)
  /\ pending[i].op = "storage.updateInventoryItem"
  /\ LET r == AfterRead(inventoryItems, pending[i].id, pending[i].read, pending[i].data, "inventory")
     IN  /\ inventoryItems' = r.store
         /\ Returned_(i, r)
  /\ UNCHANGED <<workerVars, clockVars, userVars, taskVars, inventoryIdCounter, issuedInventoryIds,
                 equipmentVars, contactVars, weatherVars>>

RaceContinue ==
  \/ \E i \in DOMAIN pending : FinishUpdateTask(i)
  \/ \E i \in DOMAIN pending : FinishUpdateInventoryItem(i)

RaceNext ==
  \/ pending = <<>> /\ StorageCreateTask
  \/ pending = <<>> /\ StorageCreateInventoryItem
  \/ \E id \in FacadeTaskIds : BeginUpdateTask(id)
  \/ \E id \in FacadeInventoryIds : BeginUpdateInventoryItem(id)
  \/ \E i \in DOMAIN pending : FinishUpdateTask(i)
  \/ \E i \in DOMAIN pending : FinishUpdateInventoryItem(i)

RaceInit == Init /\ tz = 0

RaceSpec == RaceInit /\ [][RaceNext]_vars

(* ------------- a delete between an update's read and write ------------ *)
(* A delete call is one statement: it has run when the call returns. It is *)
(* recorded, with what it returned, after the update calls it found        *)
(* waiting for their write.                                                *)
DeleteMeanwhile(op, updateOp, id, r) ==
  /\ pending # <<>>
  /\ Len(pending) < MaxInflight + 1
  /\ \A j \in DOMAIN pending : pending[j].op = updateOp /\ pending[j].id = id
  /\ pending' = Append(pending, [op |-> op, id |-> id, data |-> NoData, read |-> <<>>,
                                 pc |-> "done", ok |-> r.ok, val |-> r.val,
                                 order |-> Returns + 1])
  /\ Result(op, id, NoData, r)

DeleteTaskMeanwhile(id) ==
  /\ DeleteMeanwhile("storage.deleteTask", "storage.updateTask", id, deleteTask(id))
  /\ tasks' = deleteTask(id).store
  /\ UNCHANGED <<workerVars, clockVars, userVars, taskIdCounter, issuedTaskIds, inventoryVars,
                 equipmentVars, contactVars, weatherVars>>

DeleteInventoryItemMeanwhile(id) ==
  /\ DeleteMeanwhile("storage.deleteInventoryItem", "storage.updateInventoryItem", id,
                     deleteInventoryItem(id))
  /\ inventoryItems' = deleteInventoryItem(id).store
  /\ UNCHANGED <<workerVars, clockVars, userVars, taskVars, inventoryIdCounter,
                 issuedInventoryIds, equipmentVars, contactVars, weatherVars>>

ResurrectNext ==
  \/ pending = <<>> /\ StorageCreateTask
  \/ pending = <<>> /\ StorageCreateInventoryItem
  \/ \E id \in FacadeTaskIds : BeginUpdateTask(id)
  \/ \E id \in FacadeInventoryIds : BeginUpdateInventoryItem(id)
  \/ \E id \in FacadeTaskIds : DeleteTaskMeanwhile(id)
  \/ \E id \in FacadeInventoryIds : DeleteInventoryItemMeanwhile(id)
  \/ \E i \in DOMAIN pending : FinishUpdateTask(i)
  \/ \E i \in DOMAIN pending : FinishUpdateInventoryItem(i)

ResurrectSpec == RaceInit /\ [][ResurrectNext]_vars


(* ------------------ service worker: background sync ------------------- *)
(* The object stores of FarmFlowOfflineDB and the tag of the sync event    *)
(* that sends each.                                                        *)
Stores == {"tasks", "inventory"}

SyncTags == {"sync-tasks", "sync-inventory"}

StoreOfTag(tag) == IF tag = "sync-tasks" THEN "tasks" ELSE "inventory"

(* What POST /api/tasks and POST /api/inventory answer: created, rejected  *)
(* by validation, rejected by requireAuth.                                 *)
Answers == {201, 400, 401}

Range(seq) == {seq[k] : k \in DOMAIN seq}

(* The page puts an item into an object store; the stores are created with *)
(* autoIncrement, so an item is known by the number it was given.          *)
Enqueue(store) ==
  /\ Len(posts) < MaxQueued
  /\ offlineQueue' = [offlineQueue EXCEPT ![store] = Append(@, Len(posts) + 1)]
  /\ posts' = Append(posts, <<>>)
  /\ Respond("enqueue", Len(posts) + 1, NoData, 0, NoBody)
  /\ UNCHANGED <<cache, online, notifications, clockVars, userVars, taskVars, inventoryVars,
                 otherVars>>

(* The network comes and goes. *)
Network(up) ==
  /\ online # up
  /\ online' = up
  /\ Respond("network", 0, NoData, 0, NoBody)
  /\ UNCHANGED <<cache, offlineQueue, posts, notifications, clockVars, userVars, taskVars,
                 inventoryVars, otherVars>>

(* self.addEventListener('sync', ...): event.waitUntil(syncTasks()) or     *)
(* event.waitUntil(syncInventory()); the browser fires a tag again only    *)
(* when the promise of its last event has settled.                         *)
SyncEvent(tag) ==
  /\ Len(pending) < MaxInflight
  /\ \A i \in DOMAIN pending : pending[i].op # tag
  /\ pending' = Append(pending, [op |-> tag, store |-> StoreOfTag(tag), queue |-> <<>>,
                                 at |-> 0, pc |-> "read"])
  /\ Respond("sync", 0, NoData, 1, NoBody)
  /\ UNCHANGED <<workerVars, clockVars, userVars, taskVars, inventoryVars, equipmentVars,
                 contactVars, weatherVars>>

(* const offlineTaskQueue = await getOfflineTaskQueue();                   *)
(* if (offlineTaskQueue.length > 0)                                        *)
GetOfflineQueue(i) ==
  /\ pending[i].op \in SyncTags
  /\ pending[i].pc = "read"
  /\ LET queue == offlineQueue[pending[i].store]
     IN  IF Len(queue) > 0
         THEN /\ pending' = [pending EXCEPT ![i].queue = queue, ![i].at = 1, ![i].pc = "post"]
              /\ Respond("step", 0, NoData, 0, NoBody)
         ELSE /\ pending' = Drop(pending, i)
              /\ Respond(pending[i].op, 0, NoData, 0, NoBody)
  /\ UNCHANGED <<workerVars, clockVars, userVars, taskVars, inventoryVars, equipmentVars,
                 contactVars, weatherVars>>

(* for (const task of offlineTaskQueue) { await fetch('/api/tasks',        *)
(* { method: 'POST', ... }) }: fetch resolves with whatever the server     *)
(* answers and rejects when the network is down, which ends the sync in    *)
(* the catch block.                                                        *)
PostQueued(i, answer) ==
  /\ pending[i].op \in SyncTags
  /\ pending[i].pc = "post"
  /\ LET item == pending[i].queue[pending[i].at]
     IN  IF online
         THEN /\ Len(posts[item]) < MaxPosts
              /\ posts' = [posts EXCEPT ![item] = Append(@, answer)]
              /\ pending' = [pending EXCEPT
                               ![i].at = @ + 1,
                               ![i].pc = IF pending[i].at = Len(pending[i].queue)
                                         THEN "clear" ELSE "post"]
              /\ Respond("POST", item, NoData, answer, NoBody)
         ELSE /\ pending' = Drop(pending, i)
              /\ Respond(pending[i].op, item, NoData, -1, NoBody)
              /\ UNCHANGED posts
  /\ UNCHANGED <<cache, online, offlineQueue, notifications, clockVars, userVars, taskVars,
                 inventoryVars, equipmentVars, contactVars, weatherVars>>

(* await clearOfflineTaskQueue(): store.clear();                           *)
(* self.registration.showNotification('FarmFlow', ...)                     *)
ClearOfflineQueue(i) ==
  /\ pending[i].op \in SyncTags
  /\ pending[i].pc = "clear"
  /\ offlineQueue' = [offlineQueue EXCEPT ![pending[i].store] = <<>>]
  /\ notifications' = [notifications EXCEPT ![pending[i].store] = @ + 1]
  /\ pending' = Drop(pending, i)
  /\ Respond(pending[i].op, 0, NoData, 0, NoBody)
  /\ UNCHANGED <<cache, online, posts, clockVars, userVars, taskVars, inventoryVars,
                 equipmentVars, contactVars, weatherVars>>

SyncNext ==
  \/ \E store \in Stores : Enqueue(store)
  \/ \E up \in BOOLEAN : Network(up)
  \/ \E tag \in SyncTags : SyncEvent(tag)
  \/ \E i \in DOMAIN pending : GetOfflineQueue(i)
  \/ \E i \in DOMAIN pending, answer \in Answers : PostQueued(i, answer)
  \/ \E i \in DOMAIN pending : ClearOfflineQueue(i)

SyncInit == Init /\ tz = 0 /\ backend = "db"

SyncSpec == SyncInit /\ [][SyncNext]_vars


(* ---------------------- service worker: the cache --------------------- *)
(* A URL is the sequence of its separators and names, so that              *)
(* url.includes('/api/') is a search for a run of three of them.           *)
Includes(url, part) ==
  \E k \in 1..(Len(url) - Len(part) + 1) : SubSeq(url, k, k + Len(part) - 1) = part

ApiPart == <<"/", "api", "/">>

Origin == <<"https:", "/", "/", "farmflow.example">>

(* const urlsToCache: five URLs of the application and two stylesheets of  *)
(* other origins.                                                          *)
urlsToCache ==
  { Origin \o <<"/">>,
    Origin \o <<"/", "index.html">>,
    Origin \o <<"/", "src", "/", "main.tsx">>,
    Origin \o <<"/", "src", "/", "App.tsx">>,
    Origin \o <<"/", "src", "/", "index.css">>,
    <<"https:", "/", "/", "fonts.googleapis.com", "/", "css2">>,
    <<"https:", "/", "/", "cdn.jsdelivr.net", "/", "npm", "/", "bootstrap-icons.css">> }

(* The URLs the pages ask for: those above, the API's, and two that only   *)
(* look like the API's.                                                    *)
RequestUrls ==
  urlsToCache \cup
  { Origin \o <<"/", "api", "/", "tasks">>,
    Origin \o <<"/", "api", "/", "inventory">>,
    Origin \o <<"/", "api", "/", "weather", "/", "current">>,
    Origin \o <<"/", "apis", "/", "guide.html">>,
    Origin \o <<"/", "icon.png">> }

(* response.type: 'basic' for a response of the worker's own origin. *)
ResponseType(url) == IF SubSeq(url, 1, Len(Origin)) = Origin THEN "basic" ELSE "cors"

Statuses == {200, 401, 404}

(* install: cache.addAll(urlsToCache), which stores all of them or, when   *)
(* a request fails, none.                                                  *)
Install ==
  /\ IF online
     THEN /\ cache' = cache \cup urlsToCache
          /\ Respond("install", 0, NoData, 0, NoBody)
     ELSE /\ UNCHANGED cache
          /\ Respond("install", 0, NoData, -1, NoBody)
  /\ UNCHANGED <<online, offlineQueue, posts, notifications, clockVars, userVars, taskVars,
                 inventoryVars, otherVars>>

(* activate: caches other than CACHE_NAME are deleted. *)
Activate ==
  /\ Respond("activate", 0, NoData, 0, NoBody)
  /\ UNCHANGED <<workerVars, clockVars, userVars, taskVars, inventoryVars, otherVars>>

(* The fetch listener that puts every good response into the cache. *)
FetchEvent_CacheAll(url, html, status) ==
  /\ IF url \in cache
     THEN /\ Respond("fetch", 0, [url |-> url, html |-> html], 200, <<"cache">>)
          /\ UNCHANGED cache
     ELSE IF online
     THEN /\ Respond("fetch", 0, [url |-> url, html |-> html], status, <<"network">>)
          /\ IF status # 200 \/ ResponseType(url) # "basic"
             THEN UNCHANGED cache
             ELSE cache' = cache \cup {url}
     ELSE /\ Respond("fetch", 0, [url |-> url, html |-> html], 0,
                     IF html /\ Origin \o <<"/">> \in cache THEN <<"fallback">> ELSE NoBody)
          /\ UNCHANGED cache
  /\ UNCHANGED <<online, offlineQueue, posts, notifications, clockVars, userVars, taskVars,
                 inventoryVars, otherVars>>

(* fetch: the cached response if there is one; otherwise the network's,    *)
(* which is put into the cache when it is a 200 of the worker's origin and *)
(* the URL does not include '/api/'; with the network down, a request that *)
(* accepts text/html gets the cached '/' if there is one.                  *)
FetchEvent(url, html, status) ==
  /\ IF url \in cache
     THEN /\ Respond("fetch", 0, [url |-> url, html |-> html], 200, <<"cache">>)
          /\ UNCHANGED cache
     ELSE IF online
     THEN /\ Respond("fetch", 0, [url |-> url, html |-> html], status, <<"network">>)
          /\ IF status # 200 \/ ResponseType(url) # "basic"
             THEN UNCHANGED cache
             ELSE IF ~Includes(url, ApiPart)
             THEN cache' = cache \cup {url}
             ELSE UNCHANGED cache
     ELSE /\ Respond("fetch", 0, [url |-> url, html |-> html], 0,
                     IF html /\ Origin \o <<"/">> \in cache THEN <<"fallback">> ELSE NoBody)
          /\ UNCHANGED cache
  /\ UNCHANGED <<online, offlineQueue, posts, notifications, clockVars, userVars, taskVars,
                 inventoryVars, otherVars>>

CacheNext ==
  \/ Install
  \/ Activate
  \/ \E up \in BOOLEAN : Network(up)
  \/ \E url \in RequestUrls, html \in BOOLEAN, status \in Statuses :
       FetchEvent(url, html, status)

CacheInit == Init /\ tz = 0 /\ backend = "db"

CacheSpec == CacheInit /\ [][CacheNext]_vars


(* ------------------------------ claims -------------------------------- *)
(* The calendar day a due date names, and the status the date rule of the  *)
(* specification gives a task on the host's current calendar day.          *)
DueDay(x) == IF x.kind = "Date" THEN x.v \div TicksPerDay ELSE x.v

DateRule(completed, dueDay) ==
  IF completed THEN "completed"
  ELSE IF dueDay < LocalDay THEN "overdue"
  ELSE IF dueDay = LocalDay THEN "today"
  ELSE "upcoming"

FollowsDateRule(task) == task.status = DateRule(task.completed, DueDay(task.dueDate))

StockRule(quantity, threshold) == IF quantity < threshold THEN "low" ELSE "good"

(* C1: after any sequence of POST/PATCH/DELETE task requests, every stored *)
(* task has status "completed" if and only if its completed flag is true   *)
(* (stated for MemStorage, where createTask always derives the status, so  *)
(* that only a PATCH can break it).                                        *)
C1_CompletedIffStatus ==
  backend = "mem" =>
    \A id \in DOMAIN tasks : (tasks[id].status = "completed") <=> (tasks[id].completed = TRUE)

(* C2: after any sequence of inventory requests, every stored inventory    *)
(* item has status "low" if and only if its quantity is below its          *)
(* threshold.                                                              *)
C2_LowIffBelowThreshold ==
  \A id \in DOMAIN inventoryItems :
    (inventoryItems[id].status = "low")
      <=> (inventoryItems[id].quantity < inventoryItems[id].threshold)

(* C3: createTask, on either backend, returns a task whose status is the   *)
(* date rule's for its completed flag and due date, whatever status the    *)
(* caller supplied (stated for a host in UTC, where a date's midnight is   *)
(* the same instant in local time and in UTC).                             *)
C3_CreateTaskFollowsRule ==
  (tz = 0 /\ last.op = "createTask" /\ last.code = 201) => FollowsDateRule(last.body[1])

(* C4: an updateTask whose patch changes the due date of a non-completed   *)
(* task stores the date rule's status for the new due date, whether or not *)
(* the patch carries a completed field (stated for a host in UTC).         *)
C4_DueDateChangeRecomputes ==
  [][(/\ tz = 0
      /\ last'.op = "updateTask"
      /\ last'.code = 200
      /\ last'.id \in DOMAIN tasks
      /\ "dueDate" \in DOMAIN last'.data
      /\ DueDay(tasks'[last'.id].dueDate) # DueDay(tasks[last'.id].dueDate)
      /\ ~tasks'[last'.id].completed)
     => (FollowsDateRule(tasks[last.id]))']_vars

(* C5: for every host timezone offset, createTask gives a non-completed    *)
(* task due on the host's current calendar day the status "today", one due *)
(* the day before "overdue" and one due the day after "upcoming" (stated   *)
(* for calls that supply no status of their own).                          *)
C5_CalendarDayInEveryTimezone ==
  (/\ last.op = "createTask"
   /\ last.code = 201
   /\ "status" \notin DOMAIN last.data
   /\ ~last.body[1].completed)
    => LET due == DueDay(last.body[1].dueDate)
           status == last.body[1].status
       IN  /\ due = LocalDay => status = "today"
           /\ due = LocalDay - 1 => status = "overdue"
           /\ due = LocalDay + 1 => status = "upcoming"

(* C6: updateTask(id, {completed: true}) and updateTask(id, {completed:    *)
(* false}) are never refused, on any stored task; the first yields status  *)
(* "completed" and the second the date rule's status for the due date      *)
(* (stated for a host in UTC).                                             *)
C6_CompletionToggleNeverRefused ==
  (/\ tz = 0
   /\ last.op = "updateTask"
   /\ DOMAIN last.data = {"completed"}
   /\ last.code \notin {401, 403, 404})
    => /\ last.code = 200
       /\ last.body[1].completed = last.data.completed
       /\ FollowsDateRule(last.body[1])

(* C7: at every moment, also after the calendar day has advanced with no   *)
(* storage operation in between, every non-completed task that getTask or  *)
(* getTasks returns carries the date rule's status for the current day:    *)
(* reads that were current before the clock moved are current after it.    *)
ReadsCurrent ==
  \A id \in DOMAIN tasks : ~getTask(id).completed => FollowsDateRule(getTask(id))

C7_ReadsStayCurrentAsTimePasses ==
  [][(now' # now /\ ReadsCurrent) => ReadsCurrent']_vars

(* C8: createInventoryItem, and updateInventoryItem whenever the patch     *)
(* supplies quantity or threshold, set status to "low" exactly when the    *)
(* effective quantity is strictly below the effective threshold and to     *)
(* "good" otherwise; a field's effective value is the patch's when the     *)
(* patch supplies it and the stored one otherwise.                         *)
EffectiveQuantity == 
  IF "quantity" \in DOMAIN last'.data THEN last'.data.quantity
  ELSE inventoryItems[last'.id].quantity

EffectiveThreshold == 
  IF "threshold" \in DOMAIN last'.data THEN last'.data.threshold
  ELSE inventoryItems[last'.id].threshold

OwnValues(task) == [completed |-> task.completed, dueDate |-> task.dueDate]

C9_OwnValuesPatchIdempotent ==
  tz = 0 =>
    \A id \in DOMAIN tasks :
      LET task == getTask(id)
          once == updateTask(task, OwnValues(task))
      IN  once.ok =>
            /\ once.val.status = task.status
            /\ LET twice == updateTask(once.val, OwnValues(task))
               IN  twice.ok /\ twice.val = once.val

(* C10: across any sequence of creates and deletes on the task store of    *)
(* MemStorage, every create returns an identifier strictly greater than    *)
(* every identifier issued before; none is issued twice, also not after    *)
(* the record that held it was deleted.                                    *)
C10_IdsStrictlyIncrease ==
  backend = "mem" =>
    /\ \A i, j \in DOMAIN issuedTaskIds : i < j => issuedTaskIds[i] < issuedTaskIds[j]
    /\ \A id \in DOMAIN tasks : tasks[id].id = id /\ id \in {issuedTaskIds[i] : i \in DOMAIN issuedTaskIds}
    /\ (last.op = "createTask" /\ last.code = 201)
         => last.id = issuedTaskIds[Len(issuedTaskIds)] /\ last.body[1].id = last.id

(* A create has returned after an earlier identifier's record was deleted. *)
C10_Witness ==
  /\ backend = "mem"
  /\ last.op = "createTask"
  /\ last.code = 201
  /\ \E i \in DOMAIN issuedTaskIds :
       /\ issuedTaskIds[i] \notin DOMAIN tasks
       /\ issuedTaskIds[i] < last.id

(* C11: for every entity, a delete call returns true exactly when a record *)
(* with that identifier was stored just before the call and false          *)
(* otherwise, without raising an error; a delete that returns false        *)
(* changes no store, and a second delete of the same identifier returns    *)
(* false.                                                                  *)
stores == <<users, tasks, inventoryItems, equipmentItems, contactItems, weatherPrefs>>
counters == <<userIdCounter, taskIdCounter, inventoryIdCounter, equipmentIdCounter,
              contactIdCounter, weatherPrefIdCounter>>

DeleteIsExact(op, store, storeAfter, again) ==
  last'.op = op
    => /\ last'.code = 0
       /\ last'.body = <<last'.id \in DOMAIN store>>
       /\ storeAfter = Remove(store, last'.id)
       /\ last'.body = <<FALSE>> => UNCHANGED <<stores, counters>>
       /\ again.ok /\ again.val = <<FALSE>>

C11_DeleteReportsWhatItRemoved ==
  [][/\ DeleteIsExact("storage.deleteTask", tasks, tasks', deleteTask(last.id)')
     /\ DeleteIsExact("storage.deleteInventoryItem", inventoryItems, inventoryItems',
                      deleteInventoryItem(last.id)')
     /\ DeleteIsExact("storage.deleteEquipmentItem", equipmentItems, equipmentItems',
                      deleteEquipmentItem(last.id)')
     /\ DeleteIsExact("storage.deleteContact", contactItems, contactItems',
                      deleteContact(last.id)')]_vars

(* A task that was stored has been deleted, and a second delete of its     *)
(* identifier has returned false.                                          *)
C11_Witness ==
  /\ last.op = "storage.deleteTask"
  /\ last.code = 0
  /\ last.body = <<FALSE>>
  /\ \E i \in DOMAIN issuedTaskIds : issuedTaskIds[i] = last.id
  /\ last.id \notin DOMAIN tasks

(* C12: once a task's identifier has been deleted, every later getTask for *)
(* it returns undefined and every later getTasks omits the record stored   *)
(* under it, whatever creates, patches and deletes follow.  (An identifier *)
(* that was issued and is not stored has been deleted.)                    *)
Gone(id) ==
  /\ \E i \in DOMAIN issuedTaskIds : issuedTaskIds[i] = id
  /\ Get(tasks, id) = <<>>
  /\ \A userId \in FacadeUserIds :
       id \notin {k \in DOMAIN tasks : tasks[k] \in List(tasks, userId)}

C12_DeletedStaysAbsent ==
  [][\A id \in FacadeTaskIds : Gone(id) => Gone(id)']_vars

(* C13: updateTask, updateInventoryItem, updateEquipmentItem,              *)
(* updateContact and updateUser on an identifier that is not stored return *)
(* undefined, raise no error and leave every store and every id counter    *)
(* unchanged.                                                              *)
PatchOfAbsent(op, store) ==
  (last'.op = op /\ last'.id \notin DOMAIN store)
    => /\ last'.code = 0
       /\ last'.body = <<>>
       /\ UNCHANGED <<stores, counters>>

C13_PatchOfAbsentReturnsUndefined ==
  [][/\ PatchOfAbsent("storage.updateTask", tasks)
     /\ PatchOfAbsent("storage.updateInventoryItem", inventoryItems)
     /\ PatchOfAbsent("storage.updateEquipmentItem", equipmentItems)
     /\ PatchOfAbsent("storage.updateContact", contactItems)
     /\ PatchOfAbsent("storage.updateUser", users)]_vars

(* C14: createTask sets a task's createdAt to the time of the call, and    *)
(* every updateTask that returns the task, whatever fields its patch       *)
(* contains, leaves createdAt as it was.                                   *)
C14_CreatedAtIsImmutable ==
  [][/\ last'.op = "storage.createTask" => last'.body[1].createdAt = now
     /\ (last'.op = "storage.updateTask" /\ last'.code = 0 /\ last'.body # <<>>)
          => last'.body[1].createdAt = tasks[last'.id].createdAt]_vars

(* C15: after every successful createInventoryItem and updateInventoryItem, *)
(* on either backend and whatever the patch contains, the item returned    *)
(* and stored has lastUpdated equal to the time of that call.              *)
C15_LastUpdatedIsTimeOfCall ==
  (/\ last.op \in {"createInventoryItem", "updateInventoryItem"}
   /\ last.code \in {200, 201})
    => /\ last.body[1].lastUpdated = now
       /\ inventoryItems[last.id].lastUpdated = now

(* C16: after any sequence of weather-preference calls and requests, also  *)
(* with requests of one user in flight together, at most one               *)
(* weather-preference record exists per userId.                            *)
C16_OnePreferencePerUser ==
  \A j, k \in DOMAIN weatherPrefs :
    weatherPrefs[j].userId = weatherPrefs[k].userId => j = k

(* C17: a GET /api/tasks/:id, and a PATCH or DELETE on a task, an          *)
(* inventory item or an equipment item, sent from the session of a user    *)
(* who does not own the record, is answered 403 with no field of the       *)
(* record, and the record stays as it was.                                 *)
NotOwner(store, id) == session # 0 /\ id \in DOMAIN store /\ store[id].userId # session

Refused(store, storeAfter) ==
  last'.code = 403 /\ last'.body = NoBody /\ storeAfter = store

C17_NonOwnerIsRefused ==
  [][ /\ (last'.op \in {"getTask", "updateTask", "deleteTask"} /\ NotOwner(tasks, last'.id))
         => Refused(tasks, tasks')
      /\ (last'.op \in {"updateInventoryItem", "deleteInventoryItem"}
          /\ NotOwner(inventoryItems, last'.id))
         => Refused(inventoryItems, inventoryItems')
      /\ (last'.op \in {"updateEquipmentItem", "deleteEquipmentItem"}
          /\ NotOwner(equipmentItems, last'.id))
         => Refused(equipmentItems, equipmentItems') ]_vars

C17_Witness ==
  /\ backend = "db"
  /\ last.op = "updateTask"
  /\ last.code = 403
  /\ last.id \in DOMAIN tasks
  /\ tasks[last.id].userId # session

(* C18: an authenticated GET, PATCH or DELETE on a task, and a PATCH or    *)
(* DELETE on an inventory item or an equipment item, whose record does not *)
(* exist is answered 404 and changes no state; and a PATCH is never        *)
(* answered with a success status when no record was updated, also when    *)
(* other requests run between the handler's lookup and its update call.    *)
PatchRoutes == {"updateTask", "updateInventoryItem", "updateEquipmentItem"}

Absent(store, id) == session # 0 /\ id \notin DOMAIN store

NotFound(store, storeAfter) == last'.code = 404 /\ storeAfter = store

C18_AbsentIs404 ==
  [][ /\ (last'.op \in {"getTask", "updateTask", "deleteTask"} /\ Absent(tasks, last'.id))
         => NotFound(tasks, tasks')
      /\ (last'.op \in {"updateInventoryItem", "deleteInventoryItem"}
          /\ Absent(inventoryItems, last'.id))
         => NotFound(inventoryItems, inventoryItems')
      /\ (last'.op \in {"updateEquipmentItem", "deleteEquipmentItem"}
          /\ Absent(equipmentItems, last'.id))
         => NotFound(equipmentItems, equipmentItems')
      /\ (last'.op \in PatchRoutes /\ last'.code \in 200..299) => last'.body # NoBody ]_vars

(* C19: after any sequence of POST /api/inventory and PATCH                *)
(* /api/inventory/:id requests, every stored inventory item has a quantity *)
(* and a threshold that are not negative.                                  *)
C19_StockNeverNegative ==
  \A id \in DOMAIN inventoryItems :
    inventoryItems[id].quantity >= 0 /\ inventoryItems[id].threshold >= 0

(* C20: two update calls on one record whose reads and writes interleave   *)
(* both return: a call that read the record and carries a change returns   *)
(* the record with its change whatever was written since its read, the     *)
(* record stored is the one the last writer returned, and a call that has  *)
(* read can always go on to its write.  The record can therefore end up    *)
(* without the change of the call that wrote first.                        *)
StoreOf(op) == IF op = "storage.updateTask" THEN tasks ELSE inventoryItems

Wrote(i) == pending[i].pc = "done" /\ pending[i].ok /\ pending[i].val # <<>>

SameRecord(i, j) == pending[i].op = pending[j].op /\ pending[i].id = pending[j].id

LastWriter(i) ==
  \A j \in DOMAIN pending : (Wrote(j) /\ SameRecord(i, j)) => pending[j].order <= pending[i].order

C20_LastWriteWins ==
  /\ \A i \in DOMAIN pending :
       (pending[i].pc = "done" /\ pending[i].read # <<>> /\ DOMAIN pending[i].data # {})
       => /\ Wrote(i)
          /\ \A k \in DOMAIN pending[i].data : pending[i].val[1][k] = pending[i].data[k]
          /\ LastWriter(i) => StoreOf(pending[i].op)[pending[i].id] = pending[i].val[1]
  /\ (\E i \in DOMAIN pending : pending[i].pc = "write") => ENABLED RaceContinue

C20_Witness ==
  \E i, j \in DOMAIN pending :
    /\ Wrote(i) /\ Wrote(j) /\ SameRecord(i, j)
    /\ pending[i].order < pending[j].order
    /\ \E k \in (DOMAIN pending[i].data) \ (DOMAIN pending[j].data) :
         StoreOf(pending[i].op)[pending[i].id][k] # pending[i].data[k]

(* C21: after a successful updateEquipmentItem or updateContact every      *)
(* field present in the patch holds the patch's value, null included, and  *)
(* every field absent from the patch keeps the value it had.               *)
PatchApplied(op, store, storeAfter) ==
  (last'.op = op /\ last'.code = 0 /\ last'.body # <<>> /\ last'.id \in DOMAIN store)
  => /\ last'.id \in DOMAIN storeAfter
     /\ \A k \in DOMAIN storeAfter[last'.id] :
          storeAfter[last'.id][k] = IF k \in DOMAIN last'.data THEN last'.data[k]
                                    ELSE store[last'.id][k]

C21_PatchSetsExactlyItsFields ==
  [][ /\ PatchApplied("storage.updateEquipmentItem", equipmentItems, equipmentItems')
      /\ PatchApplied("storage.updateContact", contactItems, contactItems') ]_vars

(* C22: getTasks, getInventoryItems, getEquipmentItems and getContacts     *)
(* called with userId u return exactly the stored records whose userId is  *)
(* u, and no get or list call changes a stored record or an id counter.    *)
StoreListed(op) ==
  CASE op = "storage.getTasks" -> tasks
    [] op = "storage.getInventoryItems" -> inventoryItems
    [] op = "storage.getEquipmentItems" -> equipmentItems
    [] op = "storage.getContacts" -> contactItems

ExactlyOwned(store, u, listed) ==
  /\ \A r \in listed : r.userId = u /\ \E k \in DOMAIN store : store[k] = r
  /\ \A k \in DOMAIN store : store[k].userId = u => store[k] \in listed

C22_ListsAreScopedAndReadOnly ==
  [][ /\ last'.op \in ListOps => ExactlyOwned(StoreListed(last'.op), last'.id, last'.body[1])
      /\ last'.op \in ListOps \cup GetOps => (stores' = stores /\ counters' = counters) ]_vars

C22_Witness ==
  /\ last.op = "storage.getTasks"
  /\ last.body[1] # {}
  /\ \E k \in DOMAIN tasks : tasks[k].userId # last.id

(* C23: a route behind requireAuth is served only to a session that has   *)
(* signed in and has not signed out since. The session gets a user only    *)
(* from a registration answered 201 or from a login answered 200 whose     *)
(* username and password are those of a stored user, and loses it at       *)
(* logout; a protected request of a session without a user is answered     *)
(* 401 with no body and leaves every store and counter as it was, and a    *)
(* request of a session with a user is never answered 401.                 *)
SignedIn ==
  \/ /\ last'.op = "register"
     /\ last'.code = 201
     /\ session' = last'.id
     /\ session' \in DOMAIN users'
  \/ /\ last'.op = "login"
     /\ last'.code = 200
     /\ session' \in DOMAIN users
     /\ users[session'].username = last'.data.username
     /\ users[session'].password = last'.data.password

C23_OnlySignedInSessionsAreServed ==
  [][ /\ session' # session => (last'.op = "logout" /\ session' = 0) \/ SignedIn
      /\ last'.op = "logout" => session' = 0
      /\ last'.op \in ProtectedRoutes =>
           IF session = 0
           THEN /\ last'.code = 401
                /\ last'.body = NoBody
                /\ stores' = stores
                /\ counters' = counters
                /\ session' = 0
           ELSE last'.code # 401 ]_vars

C23_Witness ==
  /\ last.op \in ProtectedRoutes
  /\ last.code = 401
  /\ \E id \in DOMAIN users : users[id].password = "secret"

(* C24: whatever register requests were made, interleaved or not, no two   *)
(* stored users share a username or an email, and a request that names a   *)
(* username or an email some stored user has is answered 400 and stores no *)
(* user.                                                                   *)
UsersAreUnique(us) ==
  \A a, b \in DOMAIN us :
    a # b => us[a].username # us[b].username /\ us[a].email # us[b].email

Taken(data) ==
  \E id \in DOMAIN users : \/ users[id].username = data.username
                           \/ users[id].email = data.email

C24_RegisterKeepsUsersUnique ==
  [][ /\ UsersAreUnique(users')
      /\ (last'.op = "register" /\ last'.data # NoData /\ Taken(last'.data))
           => last'.code = 400 /\ users' = users ]_vars

C24_UsersAreUnique == UsersAreUnique(users)

(* C25: a sync empties an offline queue, or shows its success             *)
(* notification, only when a POST of every item in that queue was answered *)
(* 201 by the server.                                                      *)
Accepted(item) == 201 \in Range(posts'[item])

C25_QueueEmptiedOnlyWhenAllAccepted ==
  [][ \A store \in Stores :
        (\/ offlineQueue'[store] # offlineQueue[store] /\ offlineQueue'[store] = <<>>
         \/ notifications'[store] # notifications[store])
        => \A item \in Range(offlineQueue[store]) : Accepted(item) ]_vars

(* C30: whatever sync events fire, aborted and retried syncs included,    *)
(* the server receives at most one POST for each item that was placed in   *)
(* an offline queue.                                                        *)
C30_EachItemPostedAtMostOnce == \A item \in DOMAIN posts : Len(posts[item]) <= 1

(* C26: whatever install, activate and fetch events there were, the cache  *)
(* holds no response for a URL that contains '/api/', and a request for    *)
(* such a URL is never answered from the cache.                            *)
C26_NoApiResponseIsCached ==
  /\ \A url \in cache : ~Includes(url, ApiPart)
  /\ (last.op = "fetch" /\ Includes(last.data.url, ApiPart)) => last.body # <<"cache">>

C26_Witness ==
  /\ last.op = "fetch"
  /\ Includes(last.data.url, ApiPart)
  /\ last.code = 200
  /\ last.body = <<"network">>
  /\ cache # {}

(* C27: a PATCH request, whatever its body, leaves every task, inventory   *)
(* item and equipment item stored under the id it has and with the userId  *)
(* it had, and removes no record.                                          *)
KeepsIdentity(store, storeAfter) ==
  /\ DOMAIN storeAfter = DOMAIN store
  /\ \A k \in DOMAIN storeAfter :
       storeAfter[k].id = k /\ storeAfter[k].userId = store[k].userId

C27_PatchKeepsIdAndOwner ==
  [][ last'.op \in {"updateTask", "updateInventoryItem", "updateEquipmentItem"}
        => /\ KeepsIdentity(tasks, tasks')
           /\ KeepsIdentity(inventoryItems, inventoryItems')
           /\ KeepsIdentity(equipmentItems, equipmentItems') ]_vars

(* C28: a PATCH /api/weather/preferences request of user A leaves every    *)
(* weather-preference record of another user as it was, and every record   *)
(* it creates or changes is A's afterwards.                                *)
C28_PatchTouchesOnlyOwnPreference ==
  [][ (last'.op = "PATCH weather" /\ last'.code # 401)
        => /\ \A k \in DOMAIN weatherPrefs :
                weatherPrefs[k].userId # last'.id
                  => k \in DOMAIN weatherPrefs' /\ weatherPrefs'[k] = weatherPrefs[k]
           /\ \A k \in DOMAIN weatherPrefs' :
                (k \notin DOMAIN weatherPrefs \/ weatherPrefs'[k] # weatherPrefs[k])
                  => weatherPrefs'[k].userId = last'.id ]_vars

(* C29: when a delete call returned true between the read and the write of *)
(* an update call on the same record, the record is absent once both calls *)
(* have finished.                                                          *)
DeletedMeanwhile(i, j) ==
  /\ pending[i].op \in {"storage.updateTask", "storage.updateInventoryItem"}
  /\ pending[i].read # <<>>
  /\ pending[i].pc = "done"
  /\ pending[j].op \in {"storage.deleteTask", "storage.deleteInventoryItem"}
  /\ pending[j].id = pending[i].id
  /\ pending[j].val = <<TRUE>>
  /\ pending[j].order < pending[i].order

C29_DeletedRecordStaysDeleted ==
  \A i, j \in DOMAIN pending :
    DeletedMeanwhile(i, j) => pending[i].id \notin DOMAIN StoreOf(pending[i].op)

====
